---------------------------- MODULE Spec2Model ----------------------------
(***************************************************************************)
(* A model of ykvc, the YubiKey / VeraCrypt keyfile utility.               *)
(*                                                                         *)
(* The program is single-threaded and synchronous.  Every function of the  *)
(* source is an operator that maps its arguments, the part of the          *)
(* environment it reads and the outcomes of the subprocesses it starts to  *)
(* its result, the environment it leaves and the list of subprocesses it   *)
(* started.  Actions draw the outcomes of the external tools with \E.      *)
(*                                                                         *)
(*   Spec         the program: main -> run -> cmd_* (src/main.rs)          *)
(*   SpecYubikey  the device functions called directly (src/yubikey.rs)    *)
(*   SpecDeps     the dependency gate called directly                      *)
(*   SpecKeyfile  keyfile generation and secure deletion called directly   *)
(*   SpecGenerate the program given generate --output, run after run       *)
(*   SpecCommands the program given any of its six commands                *)
(***************************************************************************)
EXTENDS Integers, Sequences, FiniteSets, TLC

VARIABLES
    target_os,   \* the cfg(target_os) of the build: "macos", "linux", "other"
    pkg_paths,   \* which of /usr/bin/apt, /usr/bin/apt-get exist
    path_cmds,   \* the commands `command -v` resolves
    keyfile,     \* the file at the keyfile path: [exists, content, mode]
    op,          \* the function or command called last
    arg,         \* its argument
    ret,         \* its result: [ok, kind, val]
    invoked,     \* the subprocesses started by that call, in order
    calls,       \* the functions that call called, with their results, in order
    pre,         \* the keyfile as it was when that call started
    pc,          \* the step the running call is at ("idle": none is running)
    held,        \* the bytes the running call holds in memory
    wiped        \* history: a secure_delete has succeeded for the keyfile path

vars == <<target_os, pkg_paths, path_cmds, keyfile, op, arg, ret, invoked, calls, pre, pc, held,
          wiped>>

----------------------------------------------------------------------------
(* Bounds of the model.                                                    *)

\* Supplied secrets have 0..MaxSecretLen bytes.
MaxSecretLen == 22
\* Hex arguments have 0..ShortArgLen characters, or within ArgSlack
\* characters of the length of an encoded secret.
ShortArgLen == 3
ArgSlack == 2

----------------------------------------------------------------------------
(* error.rs: Result<T> and the error kinds.                                *)

Ok(v) == [ok |-> TRUE, kind |-> "Ok", val |-> v]
Err(k, v) == [ok |-> FALSE, kind |-> k, val |-> v]

ErrorKinds ==
    {"YubiKeyNotFound", "Slot2NotProgrammed", "DependencyMissing", "CommandFailed",
     "InstallationFailed", "InvalidHex", "InvalidSecretLength", "YkmanFailed",
     "YkpersonalizeFailed", "YkchalrespFailed", "FileError", "Io", "UnsupportedOS",
     "Cancelled", "Other"}

NoArg == <<>>
Unit == <<>>

Tools(log) == {log[i].tool : i \in DOMAIN log}

----------------------------------------------------------------------------
(* The hex crate, as used by program_slot2 and cmd_slot2_restore.  A text  *)
(* is a sequence of one-character strings, a byte an integer in 0..255.    *)

HexLower == <<"0", "1", "2", "3", "4", "5", "6", "7", "8", "9", "a", "b", "c", "d", "e", "f">>
HexUpper == <<"0", "1", "2", "3", "4", "5", "6", "7", "8", "9", "A", "B", "C", "D", "E", "F">>

HexChars == {HexLower[i] : i \in 1..16} \cup {HexUpper[i] : i \in 1..16}

IsHexChar(c) == c \in HexChars

\* The value of a hex digit of either case.
HexTable == [c \in HexChars |-> (CHOOSE i \in 1..16 : HexLower[i] = c \/ HexUpper[i] = c) - 1]

HexVal(c) == HexTable[c]

\* hex::encode: two lower-case digits per byte, high nibble first.
hex_encode(bytes) ==
    [i \in 1..(2 * Len(bytes)) |->
        LET b == bytes[(i + 1) \div 2]
        IN  IF i % 2 = 1 THEN HexLower[(b \div 16) + 1] ELSE HexLower[(b % 16) + 1]]

\* hex::decode: OddLength first, then InvalidHexCharacter, else the bytes.
hex_decode(text) ==
    IF Len(text) % 2 # 0 THEN Err("OddLength", Len(text))
    ELSE IF \E i \in 1..Len(text) : ~IsHexChar(text[i])
         THEN Err("InvalidHexCharacter", CHOOSE i \in 1..Len(text) :
                     /\ ~IsHexChar(text[i])
                     /\ \A j \in 1..(i - 1) : IsHexChar(text[j]))
         ELSE Ok([k \in 1..(Len(text) \div 2) |->
                     16 * HexVal(text[2 * k - 1]) + HexVal(text[2 * k])])

\* str::trim: the text without its leading and trailing white space.
Whitespace == {" ", "\t", "\n"}

trim(text) ==
    IF \A i \in 1..Len(text) : text[i] \in Whitespace THEN <<>>
    ELSE LET first == CHOOSE i \in 1..Len(text) :
                        /\ text[i] \notin Whitespace
                        /\ \A j \in 1..(i - 1) : text[j] \in Whitespace
             last == CHOOSE i \in 1..Len(text) :
                        /\ text[i] \notin Whitespace
                        /\ \A j \in (i + 1)..Len(text) : text[j] \in Whitespace
         IN  SubSeq(text, first, last)

----------------------------------------------------------------------------
(* Subprocesses.  A call of Command::output / status / spawn+wait ends in  *)
(* one of these ways; the log keeps it with the invocation.                *)

SpawnErr == "spawn_err"   \* the program could not be started
WaitErr  == "wait_err"    \* wait_with_output failed
ExitFail == "exit_fail"   \* it ran and status.success() is false
ExitOk   == "exit_ok"     \* it ran and status.success() is true

RunOutcomes == {SpawnErr, ExitFail, ExitOk}
SpawnWaitOutcomes == {SpawnErr, WaitErr, ExitFail, ExitOk}

Ran(tool, a, status) == [tool |-> tool, arg |-> a, status |-> status]

----------------------------------------------------------------------------
(* yubikey.rs                                                              *)

\* The length program_slot2 requires of a supplied secret.
SecretLen == 20
\* The length of the secret program_slot2 generates.
GeneratedLen == 20

None == [some |-> FALSE, bytes |-> <<>>]
Some(b) == [some |-> TRUE, bytes |-> b]

\* A mutant of program_slot2: only a short secret is rejected.
program_slot2_rejects_short_only(secret, rnd, tool) ==
    IF secret.some /\ Len(secret.bytes) < SecretLen
    THEN [ret |-> Err("InvalidSecretLength", Len(secret.bytes)), invoked |-> <<>>]
    ELSE LET secret_bytes == IF secret.some THEN secret.bytes ELSE rnd
             secret_hex == hex_encode(secret_bytes)
             log == <<Ran("ykpersonalize", secret_hex, tool)>>
         IN  IF tool = ExitOk
             THEN [ret |-> Ok(secret_bytes), invoked |-> log]
             ELSE [ret |-> Err("YkpersonalizeFailed", tool), invoked |-> log]

\* A mutant of program_slot2: the secret programmed is always a fresh one.
program_slot2_always_generates(secret, rnd, tool) ==
    IF secret.some /\ Len(secret.bytes) # SecretLen
    THEN [ret |-> Err("InvalidSecretLength", Len(secret.bytes)), invoked |-> <<>>]
    ELSE LET secret_bytes == rnd
             secret_hex == hex_encode(secret_bytes)
             log == <<Ran("ykpersonalize", secret_hex, tool)>>
         IN  IF tool = ExitOk
             THEN [ret |-> Ok(secret_bytes), invoked |-> log]
             ELSE [ret |-> Err("YkpersonalizeFailed", tool), invoked |-> log]

\* A mutant of program_slot2: the generated secret is cut to 16 bytes.
program_slot2_generates_short(secret, rnd, tool) ==
    IF secret.some /\ Len(secret.bytes) # SecretLen
    THEN [ret |-> Err("InvalidSecretLength", Len(secret.bytes)), invoked |-> <<>>]
    ELSE LET secret_bytes == IF secret.some THEN secret.bytes ELSE SubSeq(rnd, 1, 16)
             secret_hex == hex_encode(secret_bytes)
             log == <<Ran("ykpersonalize", secret_hex, tool)>>
         IN  IF tool = ExitOk
             THEN [ret |-> Ok(secret_bytes), invoked |-> log]
             ELSE [ret |-> Err("YkpersonalizeFailed", tool), invoked |-> log]

\* program_slot2(secret): `rnd` is what the random source yields (GeneratedLen
\* bytes), `tool` how the ykpersonalize subprocess ends.
program_slot2(secret, rnd, tool) ==
    IF secret.some /\ Len(secret.bytes) # SecretLen
    THEN [ret |-> Err("InvalidSecretLength", Len(secret.bytes)), invoked |-> <<>>]
    ELSE LET secret_bytes == IF secret.some THEN secret.bytes ELSE rnd
             secret_hex == hex_encode(secret_bytes)
             log == <<Ran("ykpersonalize", secret_hex, tool)>>
         IN  IF tool = ExitOk
             THEN [ret |-> Ok(secret_bytes), invoked |-> log]
             ELSE [ret |-> Err("YkpersonalizeFailed", tool), invoked |-> log]

----------------------------------------------------------------------------
(* Inputs.                                                                 *)

\* Byte sequences of a given length: constant ones and two ramps.
Patterns == {"zero", "ff", "a5", "up", "down"}

Fill(n, p) ==
    [i \in 1..n |->
        CASE p = "zero" -> 0
          [] p = "ff"   -> 255
          [] p = "a5"   -> 165
          [] p = "up"   -> (17 * i) % 256
          [] p = "down" -> (256 - 11 * i) % 256]

SuppliedSecrets == {Fill(n, p) : n \in 0..MaxSecretLen, p \in Patterns}
RandomSecrets == {Fill(GeneratedLen, p) : p \in Patterns}

----------------------------------------------------------------------------
(* platform/mod.rs, platform/macos.rs, platform/linux.rs                   *)

REQUIRED_COMMANDS == <<"ykman", "ykpersonalize", "ykchalresp">>
REQUIRED_COMMANDS_MACOS == <<"gshred">>

AptPaths == {"/usr/bin/apt", "/usr/bin/apt-get"}

\* detect_os taking any Linux for Ubuntu (a mutant of detect_os).
detect_os_any_linux(tos, pkgs) ==
    CASE tos = "macos" -> Ok("MacOS")
      [] tos = "linux" -> Ok("Ubuntu")
      [] OTHER -> Err("UnsupportedOS", "Unsupported operating system")

\* detect_os: `tos` is the target_os the program was built for, `pkgs` the
\* paths among AptPaths that exist.
detect_os(tos, pkgs) ==
    CASE tos = "macos" -> Ok("MacOS")
      [] tos = "linux" ->
            IF "/usr/bin/apt" \in pkgs \/ "/usr/bin/apt-get" \in pkgs
            THEN Ok("Ubuntu")
            ELSE Err("UnsupportedOS", "Only Ubuntu/Debian distributions are supported on Linux")
      [] OTHER -> Err("UnsupportedOS", "Unsupported operating system")

\* check_command(cmd): runs `command -v cmd`; `spawn` tells whether the
\* subprocess could be started, and it exits 0 exactly when cmd resolves.
macos_check_command(cmd, cmds, spawn) ==
    IF ~spawn
    THEN [ret |-> Err("CommandFailed", cmd), invoked |-> <<Ran("command", cmd, SpawnErr)>>]
    ELSE [ret |-> Ok(cmd \in cmds),
          invoked |-> <<Ran("command", cmd, IF cmd \in cmds THEN ExitOk ELSE ExitFail)>>]

linux_check_command(cmd, cmds, spawn) ==
    IF ~spawn
    THEN [ret |-> Err("CommandFailed", cmd), invoked |-> <<Ran("command", cmd, SpawnErr)>>]
    ELSE [ret |-> Ok(cmd \in cmds),
          invoked |-> <<Ran("command", cmd, IF cmd \in cmds THEN ExitOk ELSE ExitFail)>>]

check_command(os, cmd, cmds, spawn) ==
    IF os = "MacOS" THEN macos_check_command(cmd, cmds, spawn)
                    ELSE linux_check_command(cmd, cmds, spawn)

\* The loop body of check_dependencies over the commands `list`, from the
\* missing list and the log so far.
RECURSIVE check_each(_, _, _, _, _, _)
check_each(os, list, cmds, spawn, missing, log) ==
    IF list = <<>> THEN [ret |-> Ok(missing), invoked |-> log]
    ELSE LET c == check_command(os, Head(list), cmds, spawn)
         IN  IF ~c.ret.ok THEN [ret |-> c.ret, invoked |-> log \o c.invoked]
             ELSE check_each(os, Tail(list), cmds, spawn,
                             IF c.ret.val THEN missing ELSE Append(missing, Head(list)),
                             log \o c.invoked)

\* check_dependencies probing gshred on every platform (a mutant of
\* check_dependencies).
check_dependencies_gshred_everywhere(os, cmds, spawn) ==
    check_each(os, REQUIRED_COMMANDS \o REQUIRED_COMMANDS_MACOS, cmds, spawn, <<>>, <<>>)

\* check_dependencies(os): the required commands that do not resolve.
check_dependencies(os, cmds, spawn) ==
    LET common == check_each(os, REQUIRED_COMMANDS, cmds, spawn, <<>>, <<>>)
    IN  IF ~common.ret.ok THEN common
        ELSE IF os = "MacOS"
             THEN check_each(os, REQUIRED_COMMANDS_MACOS, cmds, spawn,
                             common.ret.val, common.invoked)
             ELSE common

\* What a package puts on the PATH once its installation had its effect.
Provides(pkg) ==
    CASE pkg = "homebrew" -> {"brew"}
      [] pkg = "ykpers" -> {"ykpersonalize", "ykchalresp"}
      [] pkg = "ykman" -> {"ykman"}
      [] pkg = "coreutils" -> {"gshred"}
      [] pkg = "yubikey-manager yubikey-personalization" ->
            {"ykman", "ykpersonalize", "ykchalresp"}
      [] OTHER -> {}

\* The commands resolvable after a package was installed with success: `eff`
\* tells whether the installation shows on this process's PATH.
Installed(cmds, pkg, eff) == IF eff THEN cmds \cup Provides(pkg) ELSE cmds

\* macos::install_homebrew: `st` is how the installer ends.
install_homebrew(cmds, st, eff) ==
    LET log == <<Ran("/bin/bash", "install.sh", st)>>
    IN  IF st = SpawnErr
        THEN [ret |-> Err("InstallationFailed", "Failed to start Homebrew installer"),
              cmds |-> cmds, invoked |-> log]
        ELSE IF st # ExitOk
        THEN [ret |-> Err("InstallationFailed", "Homebrew installation failed"),
              cmds |-> cmds, invoked |-> log]
        ELSE [ret |-> Ok(Unit), cmds |-> Installed(cmds, "homebrew", eff), invoked |-> log]

\* macos::install_yubikey_tools only warning about a failed `brew install
\* ykpers` (a mutant of macos_install_yubikey_tools).
macos_install_yubikey_tools_warns_on_ykpers(cmds, outs, eff) ==
    LET l1 == <<Ran("brew", "update", outs[1])>>
        l2 == Append(l1, Ran("brew", "install ykpers", outs[2]))
        c2 == IF outs[2] = ExitOk THEN Installed(cmds, "ykpers", eff) ELSE cmds
        l3 == Append(l2, Ran("brew", "install ykman", outs[3]))
        c3 == Installed(c2, "ykman", eff)
        l4 == Append(l3, Ran("brew", "install coreutils", outs[4]))
        c4 == Installed(c3, "coreutils", eff)
    IN  IF outs[1] = SpawnErr
        THEN [ret |-> Err("InstallationFailed", "Failed to update Homebrew"),
              cmds |-> cmds, invoked |-> l1]
        ELSE IF outs[2] = SpawnErr
        THEN [ret |-> Err("InstallationFailed", "Failed to install ykpers"),
              cmds |-> cmds, invoked |-> l2]
        ELSE IF outs[3] # ExitOk
        THEN [ret |-> Err("InstallationFailed", "Failed to install ykman"),
              cmds |-> c2, invoked |-> l3]
        ELSE IF outs[4] # ExitOk
        THEN [ret |-> Err("InstallationFailed", "Failed to install coreutils"),
              cmds |-> c3, invoked |-> l4]
        ELSE [ret |-> Ok(Unit), cmds |-> c4, invoked |-> l4]

\* macos::install_yubikey_tools: outs[1..4] are how `brew update` and the
\* three `brew install` end.
macos_install_yubikey_tools(cmds, outs, eff) ==
    LET l1 == <<Ran("brew", "update", outs[1])>>
        l2 == Append(l1, Ran("brew", "install ykpers", outs[2]))
        c2 == Installed(cmds, "ykpers", eff)
        l3 == Append(l2, Ran("brew", "install ykman", outs[3]))
        c3 == Installed(c2, "ykman", eff)
        l4 == Append(l3, Ran("brew", "install coreutils", outs[4]))
        c4 == Installed(c3, "coreutils", eff)
    IN  IF outs[1] = SpawnErr
        THEN [ret |-> Err("InstallationFailed", "Failed to update Homebrew"),
              cmds |-> cmds, invoked |-> l1]
        \* a failed `brew update` is only warned about
        ELSE IF outs[2] # ExitOk
        THEN [ret |-> Err("InstallationFailed", "Failed to install ykpers"),
              cmds |-> cmds, invoked |-> l2]
        ELSE IF outs[3] # ExitOk
        THEN [ret |-> Err("InstallationFailed", "Failed to install ykman"),
              cmds |-> c2, invoked |-> l3]
        ELSE IF outs[4] # ExitOk
        THEN [ret |-> Err("InstallationFailed", "Failed to install coreutils"),
              cmds |-> c3, invoked |-> l4]
        ELSE [ret |-> Ok(Unit), cmds |-> c4, invoked |-> l4]

\* linux::install_yubikey_tools: outs[1..2] are how `sudo apt-get update` and
\* `sudo apt-get install` end.
linux_install_yubikey_tools(cmds, outs, eff) ==
    LET l1 == <<Ran("sudo", "apt-get update", outs[1])>>
        l2 == Append(l1, Ran("sudo", "apt-get install", outs[2]))
    IN  IF outs[1] # ExitOk
        THEN [ret |-> Err("InstallationFailed", "Failed to update apt cache"),
              cmds |-> cmds, invoked |-> l1]
        ELSE IF outs[2] # ExitOk
        THEN [ret |-> Err("InstallationFailed", "Failed to install YubiKey tools"),
              cmds |-> cmds, invoked |-> l2]
        ELSE [ret |-> Ok(Unit),
              cmds |-> Installed(cmds, "yubikey-manager yubikey-personalization", eff),
              invoked |-> l2]

\* The outcomes an installation draws: whether `command -v brew` starts, how
\* the Homebrew installer ends, how the steps of install_yubikey_tools end,
\* and whether what was installed shows on the PATH.  An outcome that is
\* never drawn (the sequence stopped before the step, or the platform has no
\* such step) is left at its success value.
Aborts(k, st) == IF k = 1 THEN st = SpawnErr ELSE st # ExitOk

InstallOutcomesMacOS ==
    {o \in [brew_probe : BOOLEAN, homebrew : RunOutcomes,
            steps : [1..4 -> RunOutcomes], eff : BOOLEAN] :
        /\ \A k \in 1..3 : Aborts(k, o.steps[k]) =>
                \A j \in (k + 1)..4 : o.steps[j] = ExitOk
        /\ (~o.brew_probe \/ o.homebrew # ExitOk) =>
                \A j \in 1..4 : o.steps[j] = ExitOk}

InstallOutcomesUbuntu ==
    {o \in [brew_probe : {TRUE}, homebrew : {ExitOk},
            steps : [1..4 -> RunOutcomes], eff : BOOLEAN] :
        /\ o.steps[1] # ExitOk => o.steps[2] = ExitOk
        /\ o.steps[3] = ExitOk /\ o.steps[4] = ExitOk}

NoInstall == [brew_probe |-> TRUE, homebrew |-> ExitOk, steps |-> [k \in 1..4 |-> ExitOk],
              eff |-> TRUE]

InstallOutcomes(os) ==
    IF os = "MacOS" THEN InstallOutcomesMacOS ELSE InstallOutcomesUbuntu

\* install_dependencies(os)
install_dependencies(os, cmds, o) ==
    IF os = "MacOS"
    THEN LET hb == macos_check_command("brew", cmds, o.brew_probe)
         IN  IF ~hb.ret.ok
             THEN [ret |-> hb.ret, cmds |-> cmds, invoked |-> hb.invoked]
             ELSE IF ~hb.ret.val
             THEN LET ih == install_homebrew(cmds, o.homebrew, o.eff)
                  IN  IF ~ih.ret.ok
                      THEN [ret |-> ih.ret, cmds |-> ih.cmds,
                            invoked |-> hb.invoked \o ih.invoked]
                      ELSE LET t == macos_install_yubikey_tools(ih.cmds, o.steps, o.eff)
                           IN  [ret |-> t.ret, cmds |-> t.cmds,
                                invoked |-> hb.invoked \o ih.invoked \o t.invoked]
             ELSE LET t == macos_install_yubikey_tools(cmds, o.steps, o.eff)
                  IN  [ret |-> t.ret, cmds |-> t.cmds, invoked |-> hb.invoked \o t.invoked]
    ELSE linux_install_yubikey_tools(cmds, o.steps, o.eff)

----------------------------------------------------------------------------
(* main.rs: the dependency gate.                                           *)

Called(fn, r) == [fn |-> fn, ret |-> r]

\* The message of the error ensure_dependencies makes itself (the list of the
\* missing commands follows it; `calls` keeps that list).
StillMissingMsg == "Some dependencies are still missing after installation"

\* The outcomes ensure_dependencies draws on `os` with `cmds` resolvable:
\* whether the probes of each check start, and those of the installation
\* when there is one.
GateOutcomes(os, cmds) ==
    {o \in [probe1 : BOOLEAN, install : InstallOutcomes(os) \cup {NoInstall},
            probe2 : BOOLEAN] :
        LET first == check_dependencies(os, cmds, o.probe1)
        IN  IF first.ret.ok /\ first.ret.val # <<>>
            THEN o.install \in InstallOutcomes(os)
            ELSE o.install = NoInstall /\ o.probe2}

\* A mutant of ensure_dependencies: the installation's word is taken for it
\* (the second check is made and its list ignored).
ensure_dependencies_trusts_install(os, cmds, o) ==
    LET first == check_dependencies(os, cmds, o.probe1)
        inst == install_dependencies(os, cmds, o.install)
        second == check_dependencies(os, inst.cmds, o.probe2)
        c1 == <<Called("check_dependencies", first.ret)>>
        c2 == Append(c1, Called("install_dependencies", inst.ret))
        c3 == Append(c2, Called("check_dependencies", second.ret))
    IN  IF ~first.ret.ok
        THEN [ret |-> first.ret, cmds |-> cmds, invoked |-> first.invoked, calls |-> c1]
        ELSE IF first.ret.val = <<>>
        THEN [ret |-> Ok(Unit), cmds |-> cmds, invoked |-> first.invoked, calls |-> c1]
        ELSE IF ~inst.ret.ok
        THEN [ret |-> inst.ret, cmds |-> inst.cmds,
              invoked |-> first.invoked \o inst.invoked, calls |-> c2]
        ELSE IF ~second.ret.ok
        THEN [ret |-> second.ret, cmds |-> inst.cmds,
              invoked |-> first.invoked \o inst.invoked \o second.invoked, calls |-> c3]
        ELSE [ret |-> Ok(Unit), cmds |-> inst.cmds,
              invoked |-> first.invoked \o inst.invoked \o second.invoked, calls |-> c3]

\* A mutant of ensure_dependencies: tools still missing after the
\* installation are reported as DependencyMissing.
ensure_dependencies_dependency_missing(os, cmds, o) ==
    LET first == check_dependencies(os, cmds, o.probe1)
        inst == install_dependencies(os, cmds, o.install)
        second == check_dependencies(os, inst.cmds, o.probe2)
        c1 == <<Called("check_dependencies", first.ret)>>
        c2 == Append(c1, Called("install_dependencies", inst.ret))
        c3 == Append(c2, Called("check_dependencies", second.ret))
    IN  IF ~first.ret.ok
        THEN [ret |-> first.ret, cmds |-> cmds, invoked |-> first.invoked, calls |-> c1]
        ELSE IF first.ret.val = <<>>
        THEN [ret |-> Ok(Unit), cmds |-> cmds, invoked |-> first.invoked, calls |-> c1]
        ELSE IF ~inst.ret.ok
        THEN [ret |-> inst.ret, cmds |-> inst.cmds,
              invoked |-> first.invoked \o inst.invoked, calls |-> c2]
        ELSE IF ~second.ret.ok
        THEN [ret |-> second.ret, cmds |-> inst.cmds,
              invoked |-> first.invoked \o inst.invoked \o second.invoked, calls |-> c3]
        ELSE IF second.ret.val # <<>>
        THEN [ret |-> Err("DependencyMissing", StillMissingMsg), cmds |-> inst.cmds,
              invoked |-> first.invoked \o inst.invoked \o second.invoked, calls |-> c3]
        ELSE [ret |-> Ok(Unit), cmds |-> inst.cmds,
              invoked |-> first.invoked \o inst.invoked \o second.invoked, calls |-> c3]

\* ensure_dependencies(os): check, install what is missing, check again.
ensure_dependencies(os, cmds, o) ==
    LET first == check_dependencies(os, cmds, o.probe1)
        inst == install_dependencies(os, cmds, o.install)
        second == check_dependencies(os, inst.cmds, o.probe2)
        c1 == <<Called("check_dependencies", first.ret)>>
        c2 == Append(c1, Called("install_dependencies", inst.ret))
        c3 == Append(c2, Called("check_dependencies", second.ret))
    IN  IF ~first.ret.ok
        THEN [ret |-> first.ret, cmds |-> cmds, invoked |-> first.invoked, calls |-> c1]
        ELSE IF first.ret.val = <<>>
        THEN [ret |-> Ok(Unit), cmds |-> cmds, invoked |-> first.invoked, calls |-> c1]
        ELSE IF ~inst.ret.ok
        THEN [ret |-> inst.ret, cmds |-> inst.cmds,
              invoked |-> first.invoked \o inst.invoked, calls |-> c2]
        ELSE IF ~second.ret.ok
        THEN [ret |-> second.ret, cmds |-> inst.cmds,
              invoked |-> first.invoked \o inst.invoked \o second.invoked, calls |-> c3]
        ELSE IF second.ret.val # <<>>
        THEN [ret |-> Err("InstallationFailed", StillMissingMsg), cmds |-> inst.cmds,
              invoked |-> first.invoked \o inst.invoked \o second.invoked, calls |-> c3]
        ELSE [ret |-> Ok(Unit), cmds |-> inst.cmds,
              invoked |-> first.invoked \o inst.invoked \o second.invoked, calls |-> c3]

----------------------------------------------------------------------------
(* yubikey.rs: challenge_response.                                         *)

\* What the code looks for in the standard error of a device tool; a captured
\* text is the set of these phrases it contains (any other text adds nothing
\* the code reads).
StderrPhrases == {"No YubiKey detected", "not connected", "slot 2", "not programmed"}

\* How ykchalresp ends: its status, and the text it wrote.
ChalrespOutcome(status, out, errtext) == [status |-> status, out |-> out, err |-> errtext]

\* challenge_response running ykchalresp a second time after a non-zero exit
\* (a mutant of challenge_response).
challenge_response_retries(challenge, tool) ==
    LET log == <<Ran("ykchalresp", challenge, tool.status)>>
        decoded == hex_decode(trim(tool.out))
    IN  IF tool.status = SpawnErr
        THEN [ret |-> Err("YkchalrespFailed", "Failed to execute ykchalresp"), invoked |-> log]
        ELSE IF tool.status # ExitOk
        THEN IF "No YubiKey detected" \in tool.err \/ "not connected" \in tool.err
             THEN [ret |-> Err("YubiKeyNotFound", ""), invoked |-> log \o log]
             ELSE IF "slot 2" \in tool.err /\ "not programmed" \in tool.err
             THEN [ret |-> Err("Slot2NotProgrammed", ""), invoked |-> log \o log]
             ELSE [ret |-> Err("YkchalrespFailed", [msg |-> "ykchalresp failed", stderr |-> tool.err]),
                   invoked |-> log \o log]
        ELSE IF decoded.ok
        THEN [ret |-> Ok(decoded.val), invoked |-> log]
        ELSE [ret |-> Err("YkchalrespFailed", "Failed to decode hex response"), invoked |-> log]

\* challenge_response looking for the slot 2 text before the no-device text (a
\* mutant of challenge_response).
challenge_response_slot2_first(challenge, tool) ==
    LET log == <<Ran("ykchalresp", challenge, tool.status)>>
        decoded == hex_decode(trim(tool.out))
    IN  IF tool.status = SpawnErr
        THEN [ret |-> Err("YkchalrespFailed", "Failed to execute ykchalresp"), invoked |-> log]
        ELSE IF tool.status # ExitOk
        THEN IF "slot 2" \in tool.err /\ "not programmed" \in tool.err
             THEN [ret |-> Err("Slot2NotProgrammed", ""), invoked |-> log]
             ELSE IF "No YubiKey detected" \in tool.err \/ "not connected" \in tool.err
             THEN [ret |-> Err("YubiKeyNotFound", ""), invoked |-> log]
             ELSE [ret |-> Err("YkchalrespFailed", [msg |-> "ykchalresp failed", stderr |-> tool.err]),
                   invoked |-> log]
        ELSE IF decoded.ok
        THEN [ret |-> Ok(decoded.val), invoked |-> log]
        ELSE [ret |-> Err("YkchalrespFailed", "Failed to decode hex response"), invoked |-> log]

\* challenge_response decoding the standard output as it came (a mutant of
\* challenge_response).
challenge_response_untrimmed(challenge, tool) ==
    LET log == <<Ran("ykchalresp", challenge, tool.status)>>
        decoded == hex_decode(tool.out)
    IN  IF tool.status = SpawnErr
        THEN [ret |-> Err("YkchalrespFailed", "Failed to execute ykchalresp"), invoked |-> log]
        ELSE IF tool.status # ExitOk
        THEN IF "No YubiKey detected" \in tool.err \/ "not connected" \in tool.err
             THEN [ret |-> Err("YubiKeyNotFound", ""), invoked |-> log]
             ELSE IF "slot 2" \in tool.err /\ "not programmed" \in tool.err
             THEN [ret |-> Err("Slot2NotProgrammed", ""), invoked |-> log]
             ELSE [ret |-> Err("YkchalrespFailed", [msg |-> "ykchalresp failed", stderr |-> tool.err]),
                   invoked |-> log]
        ELSE IF decoded.ok
        THEN [ret |-> Ok(decoded.val), invoked |-> log]
        ELSE [ret |-> Err("YkchalrespFailed", "Failed to decode hex response"), invoked |-> log]

\* challenge_response(challenge)
challenge_response(challenge, tool) ==
    LET log == <<Ran("ykchalresp", challenge, tool.status)>>
        decoded == hex_decode(trim(tool.out))
    IN  IF tool.status = SpawnErr
        THEN [ret |-> Err("YkchalrespFailed", "Failed to execute ykchalresp"), invoked |-> log]
        ELSE IF tool.status # ExitOk
        THEN IF "No YubiKey detected" \in tool.err \/ "not connected" \in tool.err
             THEN [ret |-> Err("YubiKeyNotFound", ""), invoked |-> log]
             ELSE IF "slot 2" \in tool.err /\ "not programmed" \in tool.err
             THEN [ret |-> Err("Slot2NotProgrammed", ""), invoked |-> log]
             ELSE [ret |-> Err("YkchalrespFailed", [msg |-> "ykchalresp failed", stderr |-> tool.err]),
                   invoked |-> log]
        ELSE IF decoded.ok
        THEN [ret |-> Ok(decoded.val), invoked |-> log]
        ELSE [ret |-> Err("YkchalrespFailed", "Failed to decode hex response"), invoked |-> log]

----------------------------------------------------------------------------
(* yubikey.rs: check_slot2 and check_yubikey, and the str functions they   *)
(* parse the output of ykman with.                                         *)

UpperCase == <<"A", "B", "C", "D", "E", "F", "G", "H", "I", "J", "K", "L", "M", "N", "O", "P", "Q", "R", "S", "T", "U", "V", "W", "X", "Y", "Z">>
LowerCase == <<"a", "b", "c", "d", "e", "f", "g", "h", "i", "j", "k", "l", "m", "n", "o", "p", "q", "r", "s", "t", "u", "v", "w", "x", "y", "z">>

\* str::to_lowercase, on ASCII text.
LowerOf == [c \in {UpperCase[k] : k \in 1..26} |-> LowerCase[CHOOSE k \in 1..26 : UpperCase[k] = c]]

to_lowercase(text) ==
    [i \in DOMAIN text |-> IF text[i] \in DOMAIN LowerOf THEN LowerOf[text[i]] ELSE text[i]]

\* str::contains(pat)
contains(text, pat) ==
    \E i \in 0..(Len(text) - Len(pat)) : SubSeq(text, i + 1, i + Len(pat)) = pat

\* str::split(sep): the pieces between the occurrences of the character sep.
RECURSIVE split(_, _)
split(text, sep) ==
    IF \A i \in DOMAIN text : text[i] # sep THEN <<text>>
    ELSE LET k == CHOOSE i \in DOMAIN text :
                    text[i] = sep /\ \A j \in 1..(i - 1) : text[j] # sep
         IN  <<SubSeq(text, 1, k - 1)>> \o split(SubSeq(text, k + 1, Len(text)), sep)

\* str::lines: the pieces between line feeds, each without a carriage return
\* at its end; no last line after a final line feed.
without_last_empty(raw) ==
    IF raw[Len(raw)] = <<>> THEN SubSeq(raw, 1, Len(raw) - 1) ELSE raw

without_cr(line) ==
    IF line # <<>> /\ line[Len(line)] = "\r" THEN SubSeq(line, 1, Len(line) - 1) ELSE line

each_without_cr(kept) == [i \in DOMAIN kept |-> without_cr(kept[i])]

lines(text) == each_without_cr(without_last_empty(split(text, "\n")))

\* std::process::Output with the status: what a tool run with .output() did.
Output(status, out, errtext) == [status |-> status, out |-> out, err |-> errtext]

\* YubiKeyInfo
YubiKeyInfo(serial, firmware_version, slot2_programmed) ==
    [serial |-> serial, firmware_version |-> firmware_version,
     slot2_programmed |-> slot2_programmed]

\* Iterator::find on the lines: the first one that contains `key` when lowered.
find_line(ls, key) ==
    IF \A i \in DOMAIN ls : ~contains(to_lowercase(ls[i]), key) THEN None
    ELSE Some(ls[CHOOSE i \in DOMAIN ls :
                    /\ contains(to_lowercase(ls[i]), key)
                    /\ \A j \in 1..(i - 1) : ~contains(to_lowercase(ls[j]), key)])

\* Iterator::nth(1) on the pieces of a line, trimmed.
nth_1_trimmed(pieces) == IF Len(pieces) < 2 THEN None ELSE Some(trim(pieces[2]))

and_then_split_nth_1(line) ==
    IF ~line.some THEN None ELSE nth_1_trimmed(split(line.bytes, ":"))

\* The field parser of check_yubikey: the first line that contains `key` when
\* lowered, split at its colons, the second piece trimmed.
parse_field(stdout, key) == and_then_split_nth_1(find_line(lines(stdout), key))

\* Iterator::any on the lines of `ykman otp info`.
any_slot2_programmed(ls) ==
    \E i \in DOMAIN ls :
        /\ contains(to_lowercase(ls[i]), <<"s", "l", "o", "t", " ", "2">>)
        /\ contains(to_lowercase(ls[i]), <<"p", "r", "o", "g", "r", "a", "m", "m", "e", "d">>)

\* check_slot2 taking only "No YubiKey detected" for a missing device (a
\* mutant of check_slot2).
check_slot2_other_rule(tool) ==
    IF tool.status = SpawnErr
    THEN [ret |-> Err("YkmanFailed", "Failed to execute ykman"),
          invoked |-> <<Ran("ykman", "otp info", tool.status)>>]
    ELSE IF tool.status # ExitOk
    THEN IF "No YubiKey detected" \in tool.err
         THEN [ret |-> Err("YubiKeyNotFound", ""),
               invoked |-> <<Ran("ykman", "otp info", tool.status)>>]
         ELSE [ret |-> Err("YkmanFailed", [msg |-> "ykman otp info failed", stderr |-> tool.err]),
               invoked |-> <<Ran("ykman", "otp info", tool.status)>>]
    ELSE [ret |-> Ok(any_slot2_programmed(lines(tool.out))),
          invoked |-> <<Ran("ykman", "otp info", tool.status)>>]

\* check_slot2 looking for the two texts anywhere in the output (a mutant of
\* check_slot2).
check_slot2_whole_output(tool) ==
    IF tool.status = SpawnErr
    THEN [ret |-> Err("YkmanFailed", "Failed to execute ykman"),
          invoked |-> <<Ran("ykman", "otp info", tool.status)>>]
    ELSE IF tool.status # ExitOk
    THEN IF "No YubiKey detected" \in tool.err \/ "not connected" \in tool.err
         THEN [ret |-> Err("YubiKeyNotFound", ""),
               invoked |-> <<Ran("ykman", "otp info", tool.status)>>]
         ELSE [ret |-> Err("YkmanFailed", [msg |-> "ykman otp info failed", stderr |-> tool.err]),
               invoked |-> <<Ran("ykman", "otp info", tool.status)>>]
    ELSE [ret |-> Ok(any_slot2_programmed(<<tool.out>>)),
          invoked |-> <<Ran("ykman", "otp info", tool.status)>>]

\* check_slot2(): `tool` is what `ykman otp info` did.
check_slot2(tool) ==
    IF tool.status = SpawnErr
    THEN [ret |-> Err("YkmanFailed", "Failed to execute ykman"),
          invoked |-> <<Ran("ykman", "otp info", tool.status)>>]
    ELSE IF tool.status # ExitOk
    THEN IF "No YubiKey detected" \in tool.err \/ "not connected" \in tool.err
         THEN [ret |-> Err("YubiKeyNotFound", ""),
               invoked |-> <<Ran("ykman", "otp info", tool.status)>>]
         ELSE [ret |-> Err("YkmanFailed", [msg |-> "ykman otp info failed", stderr |-> tool.err]),
               invoked |-> <<Ran("ykman", "otp info", tool.status)>>]
    ELSE [ret |-> Ok(any_slot2_programmed(lines(tool.out))),
          invoked |-> <<Ran("ykman", "otp info", tool.status)>>]

\* check_yubikey once `ykman info` exited 0: `serial` and `firmware_version`
\* are what the parser found, `slot2` what check_slot2 does.
check_yubikey_parsed(log, serial, firmware_version, slot2) ==
    IF ~serial.some
    THEN [ret |-> Err("YkmanFailed", "Could not parse serial number"), invoked |-> log,
          calls |-> <<>>]
    ELSE IF ~firmware_version.some
    THEN [ret |-> Err("YkmanFailed", "Could not parse firmware version"), invoked |-> log,
          calls |-> <<>>]
    ELSE IF ~slot2.ret.ok
    THEN [ret |-> slot2.ret, invoked |-> log \o slot2.invoked,
          calls |-> <<Called("check_slot2", slot2.ret)>>]
    ELSE [ret |-> Ok(YubiKeyInfo(serial.bytes, firmware_version.bytes, slot2.ret.val)),
          invoked |-> log \o slot2.invoked,
          calls |-> <<Called("check_slot2", slot2.ret)>>]

\* check_yubikey taking slot 2 for programmed without the second query (a
\* mutant of check_yubikey).
check_yubikey_without_slot2_query(info, otp) ==
    IF info.status = SpawnErr
    THEN [ret |-> Err("YkmanFailed", "Failed to execute ykman"),
          invoked |-> <<Ran("ykman", "info", info.status)>>, calls |-> <<>>]
    ELSE IF info.status # ExitOk
    THEN IF "No YubiKey detected" \in info.err \/ "not connected" \in info.err
         THEN [ret |-> Err("YubiKeyNotFound", ""),
               invoked |-> <<Ran("ykman", "info", info.status)>>, calls |-> <<>>]
         ELSE [ret |-> Err("YkmanFailed", [msg |-> "ykman info failed", stderr |-> info.err]),
               invoked |-> <<Ran("ykman", "info", info.status)>>, calls |-> <<>>]
    ELSE check_yubikey_parsed(<<Ran("ykman", "info", info.status)>>,
                              parse_field(info.out, <<"s", "e", "r", "i", "a", "l">>),
                              parse_field(info.out, <<"f", "i", "r", "m", "w", "a", "r", "e">>),
                              [ret |-> Ok(TRUE), invoked |-> <<>>])

\* check_yubikey(): `info` is what `ykman info` did, `otp` what `ykman otp
\* info` did.
check_yubikey(info, otp) ==
    IF info.status = SpawnErr
    THEN [ret |-> Err("YkmanFailed", "Failed to execute ykman"),
          invoked |-> <<Ran("ykman", "info", info.status)>>, calls |-> <<>>]
    ELSE IF info.status # ExitOk
    THEN IF "No YubiKey detected" \in info.err \/ "not connected" \in info.err
         THEN [ret |-> Err("YubiKeyNotFound", ""),
               invoked |-> <<Ran("ykman", "info", info.status)>>, calls |-> <<>>]
         ELSE [ret |-> Err("YkmanFailed", [msg |-> "ykman info failed", stderr |-> info.err]),
               invoked |-> <<Ran("ykman", "info", info.status)>>, calls |-> <<>>]
    ELSE check_yubikey_parsed(<<Ran("ykman", "info", info.status)>>,
                              parse_field(info.out, <<"s", "e", "r", "i", "a", "l">>),
                              parse_field(info.out, <<"f", "i", "r", "m", "w", "a", "r", "e">>),
                              check_slot2(otp))

----------------------------------------------------------------------------
(* The file system, as far as the keyfile path goes.                       *)

\* The permission bits generate_keyfile sets: 0o600.
Mode600 == 384
\* The modes a new file gets under the umasks 077 and 022 (0o600, 0o644),
\* which are also the modes a file found at the path may have.
UmaskModes == {384, 420}

Absent == [exists |-> FALSE, content |-> <<>>, mode |-> 0]
File(content, mode) == [exists |-> TRUE, content |-> content, mode |-> mode]

\* File::create opened without truncation (a mutant of fs_create).
fs_create_no_truncate(f, okay, umask_mode) ==
    IF ~okay THEN [ret |-> Err("Io", "create"), file |-> f]
    ELSE IF f.exists THEN [ret |-> Ok(Unit), file |-> f]
    ELSE [ret |-> Ok(Unit), file |-> File(<<>>, umask_mode)]

\* File::create(path): a new empty file with the mode the umask leaves, or
\* the existing file truncated, its mode kept.
fs_create(f, okay, umask_mode) ==
    IF ~okay THEN [ret |-> Err("Io", "create"), file |-> f]
    ELSE IF f.exists THEN [ret |-> Ok(Unit), file |-> File(<<>>, f.mode)]
    ELSE [ret |-> Ok(Unit), file |-> File(<<>>, umask_mode)]

\* file.write_all(bytes) on the handle File::create returned (position 0): a
\* failure leaves the first `written` bytes in the file.
fs_write_all(f, bytes, okay, written) ==
    LET old == f.content
        put(n) == [i \in 1..(IF n > Len(old) THEN n ELSE Len(old)) |->
                      IF i <= n THEN bytes[i] ELSE old[i]]
    IN  IF okay THEN [ret |-> Ok(Unit), file |-> [f EXCEPT !.content = put(Len(bytes))]]
        ELSE [ret |-> Err("Io", "write"), file |-> [f EXCEPT !.content = put(written)]]

\* std::fs::set_permissions(path, mode)
fs_set_permissions(f, mode, okay) ==
    IF okay THEN [ret |-> Ok(Unit), file |-> [f EXCEPT !.mode = mode]]
    ELSE [ret |-> Err("Io", "chmod"), file |-> f]

----------------------------------------------------------------------------
(* keyfile.rs: generate_keyfile, one file operation at a time.             *)

Pending == [ok |-> FALSE, kind |-> "Pending", val |-> ""]

\* What a file operation draws: whether it succeeds, the mode the umask
\* leaves on a new file, the bytes a failed write got out.
FileOutcomes(response) ==
    [okay : BOOLEAN, umask : UmaskModes, written : {Len(response) \div 2}]

\* The steps of generate_keyfile after the path is known, in order.
GkSteps == <<"create", "write_all", "sync_all", "metadata", "set_permissions">>

GkNext(at) ==
    IF at = "set_permissions" THEN "idle"
    ELSE GkSteps[(CHOOSE i \in 1..4 : GkSteps[i] = at) + 1]

\* generate_keyfile removing the file when a step fails (a mutant of
\* generate_keyfile_step).
generate_keyfile_step_cleans_up(at, f, response, o) ==
    LET r == CASE at = "create" -> fs_create(f, o.okay, o.umask)
               [] at = "write_all" -> fs_write_all(f, response, o.okay, o.written)
               [] at = "sync_all" -> [ret |-> IF o.okay THEN Ok(Unit) ELSE Err("Io", "sync"), file |-> f]
               [] at = "metadata" -> [ret |-> IF o.okay THEN Ok(Unit) ELSE Err("Io", "metadata"), file |-> f]
               [] at = "set_permissions" -> fs_set_permissions(f, Mode600, o.okay)
        msg == CASE at = "create" -> "Failed to create keyfile"
                 [] at = "write_all" -> "Failed to write keyfile"
                 [] at = "sync_all" -> "Failed to sync keyfile"
                 [] at = "metadata" -> "Failed to get file metadata"
                 [] at = "set_permissions" -> "Failed to set file permissions"
    IN  IF ~r.ret.ok
        THEN [ret |-> Err("FileError", msg), file |-> Absent, next |-> "idle"]
        ELSE IF at = "set_permissions"
        THEN [ret |-> Ok("path"), file |-> r.file, next |-> "idle"]
        ELSE [ret |-> Pending, file |-> r.file, next |-> GkNext(at)]

\* generate_keyfile at step `at` on file `f`, holding `response`: the result
\* (Pending while steps remain), the file it leaves and the step that follows.
generate_keyfile_step(at, f, response, o) ==
    LET r == CASE at = "create" -> fs_create(f, o.okay, o.umask)
               [] at = "write_all" -> fs_write_all(f, response, o.okay, o.written)
               [] at = "sync_all" -> [ret |-> IF o.okay THEN Ok(Unit) ELSE Err("Io", "sync"), file |-> f]
               [] at = "metadata" -> [ret |-> IF o.okay THEN Ok(Unit) ELSE Err("Io", "metadata"), file |-> f]
               [] at = "set_permissions" -> fs_set_permissions(f, Mode600, o.okay)
        msg == CASE at = "create" -> "Failed to create keyfile"
                 [] at = "write_all" -> "Failed to write keyfile"
                 [] at = "sync_all" -> "Failed to sync keyfile"
                 [] at = "metadata" -> "Failed to get file metadata"
                 [] at = "set_permissions" -> "Failed to set file permissions"
    IN  IF ~r.ret.ok
        THEN [ret |-> Err("FileError", msg), file |-> r.file, next |-> "idle"]
        ELSE IF at = "set_permissions"
        THEN [ret |-> Ok("path"), file |-> r.file, next |-> "idle"]
        ELSE [ret |-> Pending, file |-> r.file, next |-> GkNext(at)]

\* Option<PathBuf>
NoPath == [some |-> FALSE, path |-> ""]
SomePath(p) == [some |-> TRUE, path |-> p]

\* generate_keyfile creating the file whatever challenge_response returned (a
\* mutant of generate_keyfile_begin).
generate_keyfile_begin_creates_anyway(challenge, output_path, tool, clock) ==
    LET cr == challenge_response(challenge, tool)
        c1 == <<Called("challenge_response", cr.ret)>>
    IN  IF ~output_path.some /\ ~clock
        THEN [ret |-> Err("Other", "Failed to get system time"), invoked |-> cr.invoked,
              calls |-> c1, next |-> "idle"]
        ELSE [ret |-> Pending, invoked |-> cr.invoked, calls |-> c1, next |-> "create"]

\* generate_keyfile up to the path: the challenge-response, then the
\* destination (`clock` tells whether the system time could be read, which
\* only the default path needs).
generate_keyfile_begin(challenge, output_path, tool, clock) ==
    LET cr == challenge_response(challenge, tool)
        c1 == <<Called("challenge_response", cr.ret)>>
    IN  IF ~cr.ret.ok
        THEN [ret |-> cr.ret, invoked |-> cr.invoked, calls |-> c1, next |-> "idle"]
        ELSE IF ~output_path.some /\ ~clock
        THEN [ret |-> Err("Other", "Failed to get system time"), invoked |-> cr.invoked,
              calls |-> c1, next |-> "idle"]
        ELSE [ret |-> Pending, invoked |-> cr.invoked, calls |-> c1, next |-> "create"]

----------------------------------------------------------------------------
(* platform/linux.rs, platform/macos.rs, keyfile.rs: secure deletion.      *)

\* How the erase tool (shred, gshred) ends.  With -u it unlinks the path
\* after its overwrite passes and exits 0; a run that exits non-zero has not
\* unlinked the path.  A run that exits 0 is not trusted to have unlinked it.
\* What the passes leave in a file that stays is not modelled.
EraseOutcomes ==
    {t \in [status : RunOutcomes, removes : BOOLEAN] : t.removes => t.status = ExitOk}

\* The file the erase tool leaves.
AfterErase(f, tool) ==
    IF ~f.exists \/ tool.status = SpawnErr THEN f
    ELSE IF tool.removes THEN Absent
    ELSE f

\* A mutant of linux::secure_delete: the path is not checked first.
linux_secure_delete_no_precheck(f, tool) ==
    LET log == <<Ran("shred", "-v -f -z -n 10 -u", tool.status)>>
        after == AfterErase(f, tool)
    IN  IF tool.status = SpawnErr
        THEN [ret |-> Err("CommandFailed", "shred -v -f -z -n 10 -u"), file |-> f,
              invoked |-> log]
        ELSE IF tool.status # ExitOk
        THEN [ret |-> Err("CommandFailed", "shred failed"), file |-> after,
              invoked |-> log]
        ELSE IF after.exists
        THEN [ret |-> Err("FileError", "File still exists after shred"), file |-> after,
              invoked |-> log]
        ELSE [ret |-> Ok(Unit), file |-> after, invoked |-> log]

\* A mutant of linux::secure_delete: the tool's exit status is trusted.
linux_secure_delete_trusts_tool(f, tool) ==
    LET log == <<Ran("shred", "-v -f -z -n 10 -u", tool.status)>>
        after == AfterErase(f, tool)
    IN  IF ~f.exists
        THEN [ret |-> Err("FileError", "File does not exist"), file |-> f,
              invoked |-> <<>>]
        ELSE IF tool.status = SpawnErr
        THEN [ret |-> Err("CommandFailed", "shred -v -f -z -n 10 -u"), file |-> f,
              invoked |-> log]
        ELSE IF tool.status # ExitOk
        THEN [ret |-> Err("CommandFailed", "shred failed"), file |-> after,
              invoked |-> log]
        ELSE [ret |-> Ok(Unit), file |-> after, invoked |-> log]

\* A mutant of linux::secure_delete: a failed erase falls back to a plain
\* removal of the file.
linux_secure_delete_fallback_remove(f, tool) ==
    LET log == <<Ran("shred", "-v -f -z -n 10 -u", tool.status)>>
        after == AfterErase(f, tool)
    IN  IF ~f.exists
        THEN [ret |-> Err("FileError", "File does not exist"), file |-> f,
              invoked |-> <<>>]
        ELSE IF tool.status = SpawnErr
        THEN [ret |-> Err("CommandFailed", "shred -v -f -z -n 10 -u"), file |-> f,
              invoked |-> log]
        ELSE IF tool.status # ExitOk
        THEN [ret |-> Err("CommandFailed", "shred failed"), file |-> Absent,
              invoked |-> log]
        ELSE IF after.exists
        THEN [ret |-> Err("FileError", "File still exists after shred"), file |-> after,
              invoked |-> log]
        ELSE [ret |-> Ok(Unit), file |-> after, invoked |-> log]

\* linux::secure_delete(path): `f` is the file at the path, `tool` how shred ends.
linux_secure_delete(f, tool) ==
    LET log == <<Ran("shred", "-v -f -z -n 10 -u", tool.status)>>
        after == AfterErase(f, tool)
    IN  IF ~f.exists
        THEN [ret |-> Err("FileError", "File does not exist"), file |-> f,
              invoked |-> <<>>]
        ELSE IF tool.status = SpawnErr
        THEN [ret |-> Err("CommandFailed", "shred -v -f -z -n 10 -u"), file |-> f,
              invoked |-> log]
        ELSE IF tool.status # ExitOk
        THEN [ret |-> Err("CommandFailed", "shred failed"), file |-> after,
              invoked |-> log]
        ELSE IF after.exists
        THEN [ret |-> Err("FileError", "File still exists after shred"), file |-> after,
              invoked |-> log]
        ELSE [ret |-> Ok(Unit), file |-> after, invoked |-> log]

\* macos::secure_delete(path): the same with gshred.
macos_secure_delete(f, tool) ==
    LET log == <<Ran("gshred", "-v -f -z -n 10 -u", tool.status)>>
        after == AfterErase(f, tool)
    IN  IF ~f.exists
        THEN [ret |-> Err("FileError", "File does not exist"), file |-> f,
              invoked |-> <<>>]
        ELSE IF tool.status = SpawnErr
        THEN [ret |-> Err("CommandFailed", "gshred -v -f -z -n 10 -u"), file |-> f,
              invoked |-> log]
        ELSE IF tool.status # ExitOk
        THEN [ret |-> Err("CommandFailed", "gshred failed"), file |-> after,
              invoked |-> log]
        ELSE IF after.exists
        THEN [ret |-> Err("FileError", "File still exists after gshred"), file |-> after,
              invoked |-> log]
        ELSE [ret |-> Ok(Unit), file |-> after, invoked |-> log]

\* keyfile::secure_delete(path): the platform's deletion, then the path is
\* looked up once more.
keyfile_secure_delete(tos, pkgs, f, tool) ==
    LET os == detect_os(tos, pkgs)
        d == IF os.val = "MacOS" THEN macos_secure_delete(f, tool)
                                 ELSE linux_secure_delete(f, tool)
        c1 == <<Called("detect_os", os)>>
        c2 == Append(c1, Called("secure_delete", d.ret))
    IN  IF ~os.ok
        THEN [ret |-> os, file |-> f, invoked |-> <<>>, calls |-> c1]
        ELSE IF ~d.ret.ok
        THEN [ret |-> d.ret, file |-> d.file, invoked |-> d.invoked, calls |-> c2]
        ELSE IF d.file.exists
        THEN [ret |-> Err("FileError", "File still exists after secure deletion"),
              file |-> d.file, invoked |-> d.invoked, calls |-> c2]
        ELSE [ret |-> Ok(Unit), file |-> d.file, invoked |-> d.invoked, calls |-> c2]

----------------------------------------------------------------------------
(* main.rs: the slot2 program and slot2 restore handlers, after the gate.  *)

\* The length cmd_slot2_restore requires of the decoded secret.
RestoreLen == 20

\* What the confirmation prompt yields.
Answers == {"yes", "no", "error"}

StepResult(r, nxt, h, log, cs) ==
    [ret |-> r, next |-> nxt, held |-> h, invoked |-> log, calls |-> cs]

\* A mutant of cmd_slot2_restore: the argument is decoded as it was typed.
cmd_slot2_restore_untrimmed(at, secret, h, answer, rnd, tool) ==
    LET d == hex_decode(secret)
        p == program_slot2(Some(h), rnd, tool)
    IN  CASE at = "validate" ->
               IF ~d.ok
               THEN StepResult(Err("InvalidHex", d.kind), "idle", h, <<>>,
                               <<Called("hex::decode", d)>>)
               ELSE IF Len(d.val) # RestoreLen
               THEN StepResult(Err("InvalidSecretLength", Len(d.val)), "idle", h, <<>>,
                               <<Called("hex::decode", d)>>)
               ELSE StepResult(Pending, "confirm", d.val, <<>>, <<Called("hex::decode", d)>>)
          [] at = "confirm" ->
               IF answer = "error"
               THEN StepResult(Err("Other", "Failed to read user input"), "idle", h, <<>>,
                               <<Called("Confirm::interact", answer)>>)
               ELSE IF answer = "no"
               THEN StepResult(Err("Cancelled", ""), "idle", h, <<>>,
                               <<Called("Confirm::interact", answer)>>)
               ELSE StepResult(Pending, "program", h, <<>>,
                               <<Called("Confirm::interact", answer)>>)
          [] at = "program" ->
               StepResult(IF p.ret.ok THEN Ok(Unit) ELSE p.ret, "idle", h, p.invoked,
                          <<Called("program_slot2", p.ret)>>)

\* cmd_slot2_restore(os, secret) at step `at`: validate the argument, ask,
\* program the slot.  `h` is the decoded secret once validated.
cmd_slot2_restore(at, secret, h, answer, rnd, tool) ==
    LET d == hex_decode(trim(secret))
        p == program_slot2(Some(h), rnd, tool)
    IN  CASE at = "validate" ->
               IF ~d.ok
               THEN StepResult(Err("InvalidHex", d.kind), "idle", h, <<>>,
                               <<Called("hex::decode", d)>>)
               ELSE IF Len(d.val) # RestoreLen
               THEN StepResult(Err("InvalidSecretLength", Len(d.val)), "idle", h, <<>>,
                               <<Called("hex::decode", d)>>)
               ELSE StepResult(Pending, "confirm", d.val, <<>>, <<Called("hex::decode", d)>>)
          [] at = "confirm" ->
               IF answer = "error"
               THEN StepResult(Err("Other", "Failed to read user input"), "idle", h, <<>>,
                               <<Called("Confirm::interact", answer)>>)
               ELSE IF answer = "no"
               THEN StepResult(Err("Cancelled", ""), "idle", h, <<>>,
                               <<Called("Confirm::interact", answer)>>)
               ELSE StepResult(Pending, "program", h, <<>>,
                               <<Called("Confirm::interact", answer)>>)
          [] at = "program" ->
               StepResult(IF p.ret.ok THEN Ok(Unit) ELSE p.ret, "idle", h, p.invoked,
                          <<Called("program_slot2", p.ret)>>)

\* A mutant of cmd_slot2_program: the answer "no" does not stop the command.
cmd_slot2_program_ignores_answer(at, h, answer, rnd, tool) ==
    LET p == program_slot2(None, rnd, tool)
    IN  CASE at = "confirm" ->
               IF answer = "error"
               THEN StepResult(Err("Other", "Failed to read user input"), "idle", h, <<>>,
                               <<Called("Confirm::interact", answer)>>)
               ELSE StepResult(Pending, "program", h, <<>>,
                               <<Called("Confirm::interact", answer)>>)
          [] at = "program" ->
               IF ~p.ret.ok
               THEN StepResult(p.ret, "idle", h, p.invoked, <<Called("program_slot2", p.ret)>>)
               ELSE StepResult(Pending, "ack", p.ret.val, p.invoked,
                               <<Called("program_slot2", p.ret)>>)
          [] at = "ack" ->
               IF answer = "error"
               THEN StepResult(Err("Other", "Failed to read user input"), "idle", h, <<>>, <<>>)
               ELSE StepResult(Ok(Unit), "idle", h, <<>>, <<>>)

\* cmd_slot2_program(os) at step `at`: ask, program the slot with a fresh
\* secret, show it and wait for the user.  `h` is the secret once programmed.
cmd_slot2_program(at, h, answer, rnd, tool) ==
    LET p == program_slot2(None, rnd, tool)
    IN  CASE at = "confirm" ->
               IF answer = "error"
               THEN StepResult(Err("Other", "Failed to read user input"), "idle", h, <<>>,
                               <<Called("Confirm::interact", answer)>>)
               ELSE IF answer = "no"
               THEN StepResult(Err("Cancelled", ""), "idle", h, <<>>,
                               <<Called("Confirm::interact", answer)>>)
               ELSE StepResult(Pending, "program", h, <<>>,
                               <<Called("Confirm::interact", answer)>>)
          [] at = "program" ->
               IF ~p.ret.ok
               THEN StepResult(p.ret, "idle", h, p.invoked, <<Called("program_slot2", p.ret)>>)
               ELSE StepResult(Pending, "ack", p.ret.val, p.invoked,
                               <<Called("program_slot2", p.ret)>>)
          [] at = "ack" ->
               IF answer = "error"
               THEN StepResult(Err("Other", "Failed to read user input"), "idle", h, <<>>, <<>>)
               ELSE StepResult(Ok(Unit), "idle", h, <<>>, <<>>)

\* What a prompt for text yields: the text, or a failure to read it.
Prompt(okay, text) == [okay |-> okay, text |-> text]

\* What one step of cmd_generate draws from its environment.
GenerateOutcome(info, otp, prompt, tool, clock, file, okay, erase) ==
    [info |-> info, otp |-> otp, prompt |-> prompt, tool |-> tool, clock |-> clock,
     file |-> file, okay |-> okay, erase |-> erase]

GenerateResult(r, nxt, h, log, cs, f) ==
    [ret |-> r, next |-> nxt, held |-> h, invoked |-> log, calls |-> cs, file |-> f]

\* The steps of cmd_generate after the gate, in order: check_yubikey, the
\* challenge prompt with generate_keyfile up to the path, the file operations
\* of generate_keyfile (GkSteps), the file size, the prompt that waits while
\* the keyfile is in use, secure_delete.
GenerateSteps ==
    <<"check_yubikey", "generate_keyfile">> \o GkSteps \o <<"file_size", "use", "secure_delete">>

\* cmd_generate going on whatever check_yubikey says of slot 2 (a mutant of
\* cmd_generate_checked).
cmd_generate_checked_any_slot2(y, h, f) ==
    IF ~y.ret.ok
    THEN GenerateResult(y.ret, "idle", h, y.invoked, <<Called("check_yubikey", y.ret)>>, f)
    ELSE GenerateResult(Pending, "generate_keyfile", h, y.invoked,
                        <<Called("check_yubikey", y.ret)>>, f)

\* cmd_generate after check_yubikey returned `y`.
cmd_generate_checked(y, h, f) ==
    IF ~y.ret.ok
    THEN GenerateResult(y.ret, "idle", h, y.invoked, <<Called("check_yubikey", y.ret)>>, f)
    ELSE IF ~y.ret.val.slot2_programmed
    THEN GenerateResult(Err("Slot2NotProgrammed", ""), "idle", h, y.invoked,
                        <<Called("check_yubikey", y.ret)>>, f)
    ELSE GenerateResult(Pending, "generate_keyfile", h, y.invoked,
                        <<Called("check_yubikey", y.ret)>>, f)

\* cmd_generate after the challenge prompt yielded `prompt`; `g` is what
\* generate_keyfile does up to the path with the text read.
cmd_generate_prompted(prompt, g, h, f) ==
    IF ~prompt.okay
    THEN GenerateResult(Err("Other", "Failed to read challenge phrase"), "idle", h,
                        <<>>, <<Called("Password::interact", prompt)>>, f)
    ELSE IF g.next = "idle"
    THEN GenerateResult(g.ret, "idle", h, g.invoked,
                        <<Called("Password::interact", prompt)>> \o g.calls
                        \o <<Called("generate_keyfile", g.ret)>>, f)
    ELSE GenerateResult(Pending, g.next, g.calls[1].ret.val, g.invoked,
                        <<Called("Password::interact", prompt)>> \o g.calls, f)

\* cmd_generate after a file operation of generate_keyfile did `k`.
cmd_generate_file_step(k, h) ==
    IF k.next # "idle"
    THEN GenerateResult(Pending, k.next, h, <<>>, <<>>, k.file)
    ELSE IF ~k.ret.ok
    THEN GenerateResult(k.ret, "idle", h, <<>>, <<Called("generate_keyfile", k.ret)>>, k.file)
    ELSE GenerateResult(Pending, "file_size", h, <<>>,
                        <<Called("generate_keyfile", k.ret)>>, k.file)

\* cmd_generate going on to write the keyfile once more after the deletion (a
\* mutant of cmd_generate_deleted).
cmd_generate_deleted_writes_again(d, h) ==
    GenerateResult(IF d.ret.ok THEN Pending ELSE d.ret, IF d.ret.ok THEN "create" ELSE "idle",
                   h, d.invoked, <<Called("keyfile::secure_delete", d.ret)>>, d.file)

\* cmd_generate after keyfile::secure_delete did `d`.
cmd_generate_deleted(d, h) ==
    GenerateResult(IF d.ret.ok THEN Ok(Unit) ELSE d.ret, "idle", h, d.invoked,
                   <<Called("keyfile::secure_delete", d.ret)>>, d.file)

\* cmd_generate(os, output) at step `at`: `h` is the response once obtained,
\* `f` the file at the output path, `tos` and `pkgs` what detect_os reads.
cmd_generate(at, output, h, f, tos, pkgs, o) ==
    CASE at = "check_yubikey" ->
            cmd_generate_checked(check_yubikey(o.info, o.otp), h, f)
      [] at = "generate_keyfile" ->
            cmd_generate_prompted(o.prompt,
                generate_keyfile_begin(o.prompt.text, output, o.tool, o.clock), h, f)
      [] at \in {GkSteps[i] : i \in DOMAIN GkSteps} ->
            cmd_generate_file_step(generate_keyfile_step(at, f, h, o.file), h)
      [] at = "file_size" ->
            IF ~o.okay
            THEN GenerateResult(Err("FileError", "Failed to get keyfile metadata"), "idle", h,
                                <<>>, <<>>, f)
            ELSE GenerateResult(Pending, "use", h, <<>>, <<>>, f)
      [] at = "use" ->
            IF ~o.okay
            THEN GenerateResult(Err("Other", "Failed to read user input"), "idle", h,
                                <<>>, <<Called("Input::interact_text", Prompt(FALSE, ""))>>, f)
            ELSE GenerateResult(Pending, "secure_delete", h, <<>>,
                                <<Called("Input::interact_text", Prompt(TRUE, ""))>>, f)
      [] at = "secure_delete" ->
            cmd_generate_deleted(keyfile_secure_delete(tos, pkgs, f, o.erase), h)

\* cmd_info(os) after the gate: `y` is what check_yubikey does.
cmd_info(y, h) ==
    StepResult(IF y.ret.ok THEN Ok(Unit) ELSE y.ret, "idle", h, y.invoked,
               <<Called("check_yubikey", y.ret)>>)

\* cmd_slot2_check(os) after the gate: `s` is what check_slot2 does.
cmd_slot2_check(s, h) ==
    StepResult(IF s.ret.ok THEN Ok(Unit) ELSE s.ret, "idle", h, s.invoked,
               <<Called("check_slot2", s.ret)>>)

\* cmd_test after check_yubikey returned `y`.
cmd_test_checked(y, h) ==
    IF ~y.ret.ok
    THEN StepResult(y.ret, "idle", h, y.invoked, <<Called("check_yubikey", y.ret)>>)
    ELSE IF ~y.ret.val.slot2_programmed
    THEN StepResult(Err("Slot2NotProgrammed", ""), "idle", h, y.invoked,
                    <<Called("check_yubikey", y.ret)>>)
    ELSE StepResult(Pending, "challenge", h, y.invoked, <<Called("check_yubikey", y.ret)>>)

\* cmd_test after the challenge prompt yielded `prompt`; `cr` is what
\* challenge_response does with the text read.
cmd_test_prompted(prompt, cr, h) ==
    IF ~prompt.okay
    THEN StepResult(Err("Other", "Failed to read challenge phrase"), "idle", h, <<>>,
                    <<Called("Password::interact", prompt)>>)
    ELSE StepResult(IF cr.ret.ok THEN Ok(Unit) ELSE cr.ret, "idle", h, cr.invoked,
                    <<Called("Password::interact", prompt),
                      Called("challenge_response", cr.ret)>>)

\* cmd_test(os) after the gate, at step `at`.
cmd_test(at, h, o) ==
    CASE at = "check_yubikey" -> cmd_test_checked(check_yubikey(o.info, o.otp), h)
      [] at = "challenge" ->
            cmd_test_prompted(o.prompt, challenge_response(o.prompt.text, o.tool), h)

\* main(): the exit status of the process, from what run() returned.
main(r) == IF r.ok THEN 0 ELSE 1

\* The first step of a command's handler once ensure_dependencies returned Ok.
FirstStep(command) ==
    CASE command = "slot2 restore" -> "validate"
      [] command = "slot2 program" -> "confirm"
      [] command = "generate" -> "check_yubikey"
      [] command = "test" -> "check_yubikey"
      [] command = "info" -> "info"
      [] command = "slot2 check" -> "check_slot2"

----------------------------------------------------------------------------
(* Inputs and environments.                                                *)

\* The arguments given to `slot2 restore`: `n` characters in a pattern, with
\* or without white space before and after.
ArgPatterns == {"lower", "upper", "bad"}

ArgBody(n, p) ==
    [i \in 1..n |->
        CASE p = "lower" -> HexLower[((7 * i) % 16) + 1]
          [] p = "upper" -> HexUpper[((5 * i + 9) % 16) + 1]
          [] p = "bad"   -> IF i = n THEN "g" ELSE HexLower[((3 * i) % 16) + 1]]

ArgLens ==
    (0..ShortArgLen) \cup ((2 * RestoreLen - ArgSlack)..(2 * RestoreLen + ArgSlack))

HexArgs ==
    {ArgBody(n, p) : n \in ArgLens, p \in ArgPatterns}
    \cup {(IF l THEN <<" ">> ELSE <<>>) \o ArgBody(n, "lower") \o (IF r THEN <<"\n">> ELSE <<>>) :
            n \in ArgLens, l \in BOOLEAN, r \in BOOLEAN}

\* What ykchalresp may write to its standard output.
ChalrespStdouts ==
    {hex_encode(Fill(20, "up")) \o <<"\n">>, hex_encode(Fill(20, "a5")),
     <<"a", "1", "b", "2", "\n">>, <<"z", "z">>, <<>>}

ChalrespOutcomes ==
    {ChalrespOutcome(ExitOk, out, {}) : out \in ChalrespStdouts}
    \cup {ChalrespOutcome(ExitFail, <<>>, e) :
            e \in {{}, {"No YubiKey detected"}, {"slot 2", "not programmed"},
                   {"not connected", "slot 2", "not programmed"}}}
    \cup {ChalrespOutcome(SpawnErr, <<>>, {})}

Challenges == {"", "phrase"}

AllCmds == {"ykman", "ykpersonalize", "ykchalresp", "gshred", "brew"}

\* The hosts: the build's target_os, and on Linux the apt paths found.
Hosts ==
    {<<"macos", {}>>, <<"other", {}>>} \cup {<<"linux", ps>> : ps \in SUBSET AptPaths}

\* The hosts the keyfile functions are called on.
KeyfileHosts == {<<"macos", {}>>, <<"linux", {"/usr/bin/apt-get"}>>, <<"linux", {}>>}

\* The keyfile path at the start: nothing there, or a file left by someone.
OldContent == Fill(24, "down")
InitialFiles == {Absent} \cup {File(OldContent, m) : m \in UmaskModes}

Quiet ==
    /\ op = "none" /\ arg = NoArg /\ ret = Pending /\ invoked = <<>> /\ calls = <<>>
    /\ pre = Absent /\ pc = "idle" /\ held = <<>>
    /\ wiped = FALSE

----------------------------------------------------------------------------
(* SpecYubikey: the functions of yubikey.rs, called directly.              *)

InitYubikey ==
    /\ target_os = "linux" /\ pkg_paths = AptPaths /\ path_cmds = AllCmds
    /\ keyfile = Absent
    /\ Quiet

CallProgramSlot2 ==
    \E secret \in {None} \cup {Some(b) : b \in SuppliedSecrets},
       rnd \in RandomSecrets, tool \in SpawnWaitOutcomes :
        LET r == program_slot2(secret, rnd, tool)
        IN  /\ op' = "program_slot2"
            /\ arg' = secret
            /\ ret' = r.ret
            /\ invoked' = r.invoked
            /\ calls' = <<>>
            /\ UNCHANGED <<target_os, pkg_paths, path_cmds, keyfile, wiped, pre, pc, held>>

\* What ykchalresp may do when challenge_response is called directly: any
\* status, on exit 0 any of these standard outputs, on a failure any
\* combination of the phrases in its standard error.
ChalrespRunStdouts ==
    ChalrespStdouts \cup
    {hex_encode(Fill(20, "down")) \o <<"\n">>,
     <<" ", "\t">> \o hex_encode(Fill(21, "up")) \o <<"\n">>,
     <<"A", "B", "c", "d", "0", "9", "\n">>,
     <<"a", "1", " ", "b", "2">>,
     <<"a", "b", "c", "\n">>}

ChalrespRuns ==
    {ChalrespOutcome(ExitOk, out, {}) : out \in ChalrespRunStdouts}
    \cup {ChalrespOutcome(ExitFail, out, e) : out \in {<<>>, hex_encode(Fill(20, "up"))},
                                             e \in SUBSET StderrPhrases}
    \cup {ChalrespOutcome(SpawnErr, <<>>, {})}

CallChallengeResponse ==
    \E challenge \in Challenges, tool \in ChalrespRuns :
        LET r == challenge_response(challenge, tool)
        IN  /\ op' = "challenge_response"
            /\ arg' = challenge
            /\ ret' = r.ret
            /\ invoked' = r.invoked
            /\ calls' = <<Called("ykchalresp", tool)>>
            /\ UNCHANGED <<target_os, pkg_paths, path_cmds, keyfile, wiped, pre, pc, held>>

\* What `ykman info` may write to its standard output on exit 0.
YkmanInfoStdouts ==
    {<<"S", "e", "r", "i", "a", "l", " ", "n", "u", "m", "b", "e", "r", ":", " ", "1", "2", "3", "4", "5", "6", "7", "8", "\n", "F", "i", "r", "m", "w", "a", "r", "e", " ", "v", "e", "r", "s", "i", "o", "n", ":", " ", "5", ".", "4", ".", "3", "\n">>,
     <<"f", "i", "r", "m", "w", "a", "r", "e", ":", "\t", "1", ".", "0", "\r", "\n", "S", "E", "R", "I", "A", "L", ":", " ", " ", "4", "2", " ", "\r", "\n">>,
     <<"S", "e", "r", "i", "a", "l", ":", " ", "1", "2", ":", "3", "4", "\n", "F", "i", "r", "m", "w", "a", "r", "e", " ", "v", "e", "r", "s", "i", "o", "n", ":", " ", "5", ".", "4", ".", "3">>,
     <<"S", "e", "r", "i", "a", "l", " ", "n", "u", "m", "b", "e", "r", ":", " ", "7", "\n">>,
     <<"s", "e", "r", "i", "a", "l", "\n", "S", "e", "r", "i", "a", "l", ":", " ", "9", "\n", "F", "i", "r", "m", "w", "a", "r", "e", ":", " ", "2", "\n">>,
     <<"F", "i", "r", "m", "w", "a", "r", "e", " ", "v", "e", "r", "s", "i", "o", "n", ":", " ", "5", ".", "4", ".", "3", "\n">>,
     <<>>}

\* What `ykman otp info` may write to its standard output on exit 0.
YkmanOtpStdouts ==
    {<<"S", "l", "o", "t", " ", "1", ":", " ", "p", "r", "o", "g", "r", "a", "m", "m", "e", "d", "\n", "S", "l", "o", "t", " ", "2", ":", " ", "p", "r", "o", "g", "r", "a", "m", "m", "e", "d", "\n">>,
     <<"S", "l", "o", "t", " ", "1", ":", " ", "p", "r", "o", "g", "r", "a", "m", "m", "e", "d", "\n", "S", "l", "o", "t", " ", "2", ":", " ", "e", "m", "p", "t", "y", "\n">>,
     <<"S", "L", "O", "T", " ", "2", ":", " ", "P", "R", "O", "G", "R", "A", "M", "M", "E", "D">>,
     <<"S", "l", "o", "t", " ", "2", ":", " ", "n", "o", "t", " ", "p", "r", "o", "g", "r", "a", "m", "m", "e", "d", "\n">>,
     <<"p", "r", "o", "g", "r", "a", "m", "m", "e", "d", "\r", "\n", "s", "l", "o", "t", " ", "2", "\r", "\n">>,
     <<>>}

\* What the standard error of a failed ykman may hold.
YkmanStderrs == {{}, {"No YubiKey detected"}, {"not connected"}, {"slot 2", "not programmed"}}

YkmanInfoRuns ==
    {Output(ExitOk, out, {}) : out \in YkmanInfoStdouts}
    \cup {Output(ExitFail, <<>>, e) : e \in YkmanStderrs}
    \cup {Output(SpawnErr, <<>>, {})}

YkmanOtpRuns ==
    {Output(ExitOk, out, {}) : out \in YkmanOtpStdouts}
    \cup {Output(ExitFail, <<>>, e) : e \in YkmanStderrs}
    \cup {Output(SpawnErr, <<>>, {})}

CallCheckSlot2 ==
    \E tool \in YkmanOtpRuns :
        LET r == check_slot2(tool)
        IN  /\ op' = "check_slot2"
            /\ arg' = NoArg
            /\ ret' = r.ret
            /\ invoked' = r.invoked
            /\ calls' = <<Called("ykman otp info", tool)>>
            /\ UNCHANGED <<target_os, pkg_paths, path_cmds, keyfile, wiped, pre, pc, held>>

\* `calls` keeps the output of each ykman the call ran, then what it called.
CallCheckYubikey ==
    \E info \in YkmanInfoRuns, otp \in YkmanOtpRuns :
        LET r == check_yubikey(info, otp)
        IN  /\ op' = "check_yubikey"
            /\ arg' = NoArg
            /\ ret' = r.ret
            /\ invoked' = r.invoked
            /\ calls' = <<Called("ykman info", info)>>
                         \o (IF Len(r.invoked) = 2 THEN <<Called("ykman otp info", otp)>> ELSE <<>>)
                         \o r.calls
            /\ UNCHANGED <<target_os, pkg_paths, path_cmds, keyfile, wiped, pre, pc, held>>

NextYubikey ==
    \/ CallProgramSlot2
    \/ CallChallengeResponse
    \/ CallCheckSlot2
    \/ CallCheckYubikey

SpecYubikey == InitYubikey /\ [][NextYubikey]_vars

----------------------------------------------------------------------------
(* SpecDeps: ensure_dependencies called directly, on either platform.      *)

InitDeps ==
    /\ target_os \in {"macos", "linux"} /\ pkg_paths = AptPaths
    /\ path_cmds \in SUBSET AllCmds
    /\ keyfile = Absent
    /\ Quiet

CallEnsureDependencies ==
    \E o \in GateOutcomes(detect_os(target_os, pkg_paths).val, path_cmds) :
        LET os == detect_os(target_os, pkg_paths).val
            r == ensure_dependencies(os, path_cmds, o)
        IN  /\ op' = "ensure_dependencies"
            /\ arg' = os
            /\ ret' = r.ret
            /\ invoked' = r.invoked
            /\ calls' = r.calls
            /\ path_cmds' = r.cmds
            /\ UNCHANGED <<target_os, pkg_paths, keyfile, wiped, pre, pc, held>>

NextDeps == CallEnsureDependencies

SpecDeps == InitDeps /\ [][NextDeps]_vars

----------------------------------------------------------------------------
(* SpecKeyfile: generate_keyfile and the secure_delete functions, called   *)
(* directly on the keyfile path.                                           *)

InitKeyfile ==
    /\ \E h \in KeyfileHosts : target_os = h[1] /\ pkg_paths = h[2]
    /\ path_cmds = AllCmds
    /\ keyfile \in InitialFiles
    /\ Quiet

CallGenerateKeyfile ==
    /\ pc = "idle"
    /\ \E challenge \in Challenges, output_path \in {NoPath, SomePath("out.key")},
          tool \in ChalrespOutcomes :
       \E clock \in (IF output_path.some THEN {TRUE} ELSE BOOLEAN) :
        LET r == generate_keyfile_begin(challenge, output_path, tool, clock)
        IN  /\ op' = "generate_keyfile"
            /\ arg' = <<challenge, output_path>>
            /\ ret' = r.ret
            /\ invoked' = r.invoked
            /\ calls' = r.calls
            /\ pc' = r.next
            /\ held' = IF r.calls[1].ret.ok THEN r.calls[1].ret.val ELSE <<>>
            /\ pre' = keyfile
            /\ UNCHANGED <<target_os, pkg_paths, path_cmds, keyfile, wiped>>

GenerateKeyfileStep ==
    /\ op = "generate_keyfile"
    /\ pc # "idle"
    /\ \E o \in FileOutcomes(held) :
        LET r == generate_keyfile_step(pc, keyfile, held, o)
        IN  /\ ret' = r.ret
            /\ keyfile' = r.file
            /\ pc' = r.next
            /\ UNCHANGED <<target_os, pkg_paths, path_cmds, op, arg, invoked, calls, pre, held, wiped>>

CallPlatformSecureDelete ==
    /\ pc = "idle"
    /\ \E os \in {"MacOS", "Ubuntu"}, tool \in EraseOutcomes :
        LET r == IF os = "MacOS" THEN macos_secure_delete(keyfile, tool)
                                 ELSE linux_secure_delete(keyfile, tool)
        IN  /\ op' = IF os = "MacOS" THEN "macos::secure_delete" ELSE "linux::secure_delete"
            /\ arg' = "path"
            /\ ret' = r.ret
            /\ invoked' = r.invoked
            /\ calls' = <<>>
            /\ keyfile' = r.file
            /\ wiped' = (wiped \/ r.ret.ok)
            /\ pre' = keyfile
            /\ held' = <<>>
            /\ UNCHANGED <<target_os, pkg_paths, path_cmds, pc>>

CallKeyfileSecureDelete ==
    /\ pc = "idle"
    /\ \E tool \in EraseOutcomes :
        LET r == keyfile_secure_delete(target_os, pkg_paths, keyfile, tool)
        IN  /\ op' = "keyfile::secure_delete"
            /\ arg' = "path"
            /\ ret' = r.ret
            /\ invoked' = r.invoked
            /\ calls' = r.calls
            /\ keyfile' = r.file
            /\ wiped' = (wiped \/ r.ret.ok)
            /\ pre' = keyfile
            /\ held' = <<>>
            /\ UNCHANGED <<target_os, pkg_paths, path_cmds, pc>>

NextKeyfile ==
    \/ CallGenerateKeyfile
    \/ GenerateKeyfileStep
    \/ CallPlatformSecureDelete
    \/ CallKeyfileSecureDelete

SpecKeyfile == InitKeyfile /\ [][NextKeyfile]_vars

----------------------------------------------------------------------------
(* Spec: the program.  One invocation of ykvc runs at a time: run() detects *)
(* the platform and routes to the handler, whose first act is the          *)
(* dependency gate.                                                        *)

Commands == {"slot2 program", "slot2 restore"}

CommandArgs(command) == IF command = "slot2 restore" THEN HexArgs ELSE {NoArg}

\* The PATH at the start: everything resolves, nothing does, or all but gshred.
InitialPaths == {AllCmds, {}, AllCmds \ {"gshred"}}

Init ==
    /\ \E h \in Hosts : target_os = h[1] /\ pkg_paths = h[2]
    /\ path_cmds \in InitialPaths
    /\ keyfile = Absent
    /\ Quiet

\* run(): detect_os, then the handler of the command given.
Run ==
    /\ pc = "idle"
    /\ \E command \in Commands : \E a \in CommandArgs(command) :
        LET os == detect_os(target_os, pkg_paths)
        IN  /\ op' = command
            /\ arg' = a
            /\ invoked' = <<>>
            /\ calls' = <<Called("detect_os", os)>>
            /\ ret' = IF os.ok THEN Pending ELSE os
            /\ pc' = IF os.ok THEN "gate" ELSE "idle"
            /\ held' = <<>>
            /\ pre' = keyfile
            /\ UNCHANGED <<target_os, pkg_paths, path_cmds, keyfile, wiped>>

\* The handler going on whatever ensure_dependencies returned (a mutant of
\* Gate).
Gate_ignores_failure ==
    /\ pc = "gate"
    /\ \E o \in GateOutcomes(calls[1].ret.val, path_cmds) :
        LET r == ensure_dependencies(calls[1].ret.val, path_cmds, o)
        IN  /\ path_cmds' = r.cmds
            /\ invoked' = invoked \o r.invoked
            /\ calls' = Append(calls, Called("ensure_dependencies", r.ret))
            /\ ret' = Pending
            /\ pc' = FirstStep(op)
            /\ UNCHANGED <<target_os, pkg_paths, keyfile, wiped, op, arg, pre, held>>

\* The handler's ensure_dependencies(os)?.
Gate ==
    /\ pc = "gate"
    /\ \E o \in GateOutcomes(calls[1].ret.val, path_cmds) :
        LET r == ensure_dependencies(calls[1].ret.val, path_cmds, o)
        IN  /\ path_cmds' = r.cmds
            /\ invoked' = invoked \o r.invoked
            /\ calls' = Append(calls, Called("ensure_dependencies", r.ret))
            /\ ret' = IF r.ret.ok THEN Pending ELSE r.ret
            /\ pc' = IF r.ret.ok THEN FirstStep(op) ELSE "idle"
            /\ UNCHANGED <<target_os, pkg_paths, keyfile, wiped, op, arg, pre, held>>

Slot2RestoreStep ==
    /\ op = "slot2 restore"
    /\ pc \in {"validate", "confirm", "program"}
    /\ \E answer \in (IF pc = "confirm" THEN Answers ELSE {"yes"}),
          rnd \in (IF pc = "program" THEN RandomSecrets ELSE {<<>>}),
          tool \in (IF pc = "program" THEN SpawnWaitOutcomes ELSE {ExitOk}) :
        LET r == cmd_slot2_restore(pc, arg, held, answer, rnd, tool)
        IN  /\ ret' = r.ret
            /\ pc' = r.next
            /\ held' = r.held
            /\ invoked' = invoked \o r.invoked
            /\ calls' = calls \o r.calls
            /\ UNCHANGED <<target_os, pkg_paths, path_cmds, keyfile, wiped, op, arg, pre>>

Slot2ProgramStep ==
    /\ op = "slot2 program"
    /\ pc \in {"confirm", "program", "ack"}
    /\ \E answer \in (IF pc = "program" THEN {"yes"} ELSE Answers),
          rnd \in (IF pc = "program" THEN RandomSecrets ELSE {<<>>}),
          tool \in (IF pc = "program" THEN SpawnWaitOutcomes ELSE {ExitOk}) :
        LET r == cmd_slot2_program(pc, held, answer, rnd, tool)
        IN  /\ ret' = r.ret
            /\ pc' = r.next
            /\ held' = r.held
            /\ invoked' = invoked \o r.invoked
            /\ calls' = calls \o r.calls
            /\ UNCHANGED <<target_os, pkg_paths, path_cmds, keyfile, wiped, op, arg, pre>>

Next ==
    \/ Run
    \/ Gate
    \/ Slot2RestoreStep
    \/ Slot2ProgramStep

Spec == Init /\ [][Next]_vars

----------------------------------------------------------------------------
(* SpecGenerate: the program given the generate command with --output, so  *)
(* that every run is on the same path.  (Without --output the path is      *)
(* named after the second the run starts in.)                              *)

\* What the tools and the user may do during a run of generate.
GenerateInfoRuns ==
    {Output(ExitOk, <<"S", "e", "r", "i", "a", "l", " ", "n", "u", "m", "b", "e", "r", ":", " ", "1", "2", "3", "4", "5", "6", "7", "8", "\n", "F", "i", "r", "m", "w", "a", "r", "e", " ", "v", "e", "r", "s", "i", "o", "n", ":", " ", "5", ".", "4", ".", "3", "\n">>, {}),
     Output(ExitFail, <<>>, {"No YubiKey detected"})}

GenerateOtpRuns ==
    {Output(ExitOk, <<"S", "l", "o", "t", " ", "1", ":", " ", "p", "r", "o", "g", "r", "a", "m", "m", "e", "d", "\n", "S", "l", "o", "t", " ", "2", ":", " ", "p", "r", "o", "g", "r", "a", "m", "m", "e", "d", "\n">>, {}),
     Output(ExitOk, <<"S", "l", "o", "t", " ", "1", ":", " ", "p", "r", "o", "g", "r", "a", "m", "m", "e", "d", "\n", "S", "l", "o", "t", " ", "2", ":", " ", "e", "m", "p", "t", "y", "\n">>, {}),
     Output(ExitFail, <<>>, {})}

GeneratePrompts == {Prompt(TRUE, "phrase"), Prompt(FALSE, "")}

GenerateChalrespRuns ==
    {ChalrespOutcome(ExitOk, hex_encode(Fill(20, "up")) \o <<"\n">>, {}),
     ChalrespOutcome(ExitOk, <<"a", "1", "b", "2", "\n">>, {}),
     ChalrespOutcome(ExitFail, <<>>, {"slot 2", "not programmed"})}

\* The outcomes the step `at` draws; what a step does not read is left at one
\* value.
GenerateOutcomes(at, h) ==
    {GenerateOutcome(info, otp, prompt, tool, TRUE, file, okay, erase) :
        info \in (IF at = "check_yubikey" THEN GenerateInfoRuns
                  ELSE {Output(ExitOk, <<>>, {})}),
        otp \in (IF at = "check_yubikey" THEN GenerateOtpRuns
                 ELSE {Output(ExitOk, <<>>, {})}),
        prompt \in (IF at = "generate_keyfile" THEN GeneratePrompts ELSE {Prompt(TRUE, "")}),
        tool \in (IF at = "generate_keyfile" THEN GenerateChalrespRuns
                  ELSE {ChalrespOutcome(ExitOk, <<>>, {})}),
        file \in (IF at \in {GkSteps[i] : i \in DOMAIN GkSteps} THEN FileOutcomes(h)
                  ELSE {[okay |-> TRUE, umask |-> Mode600, written |-> 0]}),
        okay \in (IF at \in {"file_size", "use"} THEN BOOLEAN ELSE {TRUE}),
        erase \in (IF at = "secure_delete" THEN EraseOutcomes
                   ELSE {[status |-> ExitOk, removes |-> TRUE]})}

InitGenerate ==
    /\ \E h \in Hosts : target_os = h[1] /\ pkg_paths = h[2]
    /\ path_cmds \in {AllCmds, {}}
    /\ keyfile \in InitialFiles
    /\ Quiet

\* run() for `ykvc generate --output out.key`.
RunGenerate ==
    /\ pc = "idle"
    /\ LET os == detect_os(target_os, pkg_paths)
       IN  /\ op' = "generate"
           /\ arg' = SomePath("out.key")
           /\ invoked' = <<>>
           /\ calls' = <<Called("detect_os", os)>>
           /\ ret' = IF os.ok THEN Pending ELSE os
           /\ pc' = IF os.ok THEN "gate" ELSE "idle"
           /\ held' = <<>>
           /\ pre' = keyfile
           /\ UNCHANGED <<target_os, pkg_paths, path_cmds, keyfile, wiped>>

GenerateStep ==
    /\ op = "generate"
    /\ pc \in {GenerateSteps[i] : i \in DOMAIN GenerateSteps}
    /\ \E o \in GenerateOutcomes(pc, held) :
        LET r == cmd_generate(pc, arg, held, keyfile, target_os, pkg_paths, o)
        IN  /\ ret' = r.ret
            /\ pc' = r.next
            /\ held' = r.held
            /\ invoked' = invoked \o r.invoked
            /\ calls' = calls \o r.calls
            /\ keyfile' = r.file
            /\ wiped' = (wiped \/ (pc = "secure_delete" /\ r.ret.ok))
            /\ UNCHANGED <<target_os, pkg_paths, path_cmds, op, arg, pre>>

NextGenerate ==
    \/ RunGenerate
    \/ Gate
    \/ GenerateStep

SpecGenerate == InitGenerate /\ [][NextGenerate]_vars

----------------------------------------------------------------------------
(* SpecCommands: the program given any of its six commands, one            *)
(* invocation after the other on the same host.                            *)

AllCommands == {"info", "slot2 check", "slot2 program", "slot2 restore", "generate", "test"}

\* The argument of a command: a secret of 40 hex digits or of 3 for slot2
\* restore, the output path for generate.
CommandLineArgs(command) ==
    CASE command = "slot2 restore" -> {ArgBody(2 * RestoreLen, "lower"), ArgBody(3, "lower")}
      [] command = "generate" -> {SomePath("out.key")}
      [] OTHER -> {NoArg}

InitCommands ==
    /\ \E h \in Hosts : target_os = h[1] /\ pkg_paths = h[2]
    /\ path_cmds \in {AllCmds, {}}
    /\ keyfile = Absent
    /\ Quiet

\* run(): detect_os, then the handler of the command given.
RunCommand ==
    /\ pc = "idle"
    /\ \E command \in AllCommands : \E a \in CommandLineArgs(command) :
        LET os == detect_os(target_os, pkg_paths)
        IN  /\ op' = command
            /\ arg' = a
            /\ invoked' = <<>>
            /\ calls' = <<Called("detect_os", os)>>
            /\ ret' = IF os.ok THEN Pending ELSE os
            /\ pc' = IF os.ok THEN "gate" ELSE "idle"
            /\ held' = <<>>
            /\ pre' = keyfile
            /\ UNCHANGED <<target_os, pkg_paths, path_cmds, keyfile, wiped>>

InfoStep ==
    /\ op = "info"
    /\ pc = "info"
    /\ \E info \in GenerateInfoRuns, otp \in GenerateOtpRuns :
        LET r == cmd_info(check_yubikey(info, otp), held)
        IN  /\ ret' = r.ret
            /\ pc' = r.next
            /\ held' = r.held
            /\ invoked' = invoked \o r.invoked
            /\ calls' = calls \o r.calls
            /\ UNCHANGED <<target_os, pkg_paths, path_cmds, keyfile, wiped, op, arg, pre>>

Slot2CheckStep ==
    /\ op = "slot2 check"
    /\ pc = "check_slot2"
    /\ \E otp \in GenerateOtpRuns :
        LET r == cmd_slot2_check(check_slot2(otp), held)
        IN  /\ ret' = r.ret
            /\ pc' = r.next
            /\ held' = r.held
            /\ invoked' = invoked \o r.invoked
            /\ calls' = calls \o r.calls
            /\ UNCHANGED <<target_os, pkg_paths, path_cmds, keyfile, wiped, op, arg, pre>>

TestStep ==
    /\ op = "test"
    /\ pc \in {"check_yubikey", "challenge"}
    /\ \E o \in GenerateOutcomes(IF pc = "challenge" THEN "generate_keyfile" ELSE pc, held) :
        LET r == cmd_test(pc, held, o)
        IN  /\ ret' = r.ret
            /\ pc' = r.next
            /\ held' = r.held
            /\ invoked' = invoked \o r.invoked
            /\ calls' = calls \o r.calls
            /\ UNCHANGED <<target_os, pkg_paths, path_cmds, keyfile, wiped, op, arg, pre>>

NextCommands ==
    \/ RunCommand
    \/ Gate
    \/ InfoStep
    \/ Slot2CheckStep
    \/ Slot2ProgramStep
    \/ Slot2RestoreStep
    \/ GenerateStep
    \/ TestStep

SpecCommands == InitCommands /\ [][NextCommands]_vars

----------------------------------------------------------------------------
(* Properties of program_slot2 (SpecYubikey).                              *)

\* C1: for every supplied secret whose length is not 20 bytes, program_slot2
\* returns InvalidSecretLength carrying the actual length, and ykpersonalize
\* (or any other subprocess) is not invoked in that call.
C1_WrongLengthRejected ==
    (op = "program_slot2" /\ arg.some /\ Len(arg.bytes) # 20) =>
        /\ ret.kind = "InvalidSecretLength"
        /\ ret.val = Len(arg.bytes)
        /\ "ykpersonalize" \notin Tools(invoked)
        /\ invoked = <<>>

\* A supplied secret of 21 bytes was rejected with its length.
C1_Witness ==
    /\ op = "program_slot2" /\ arg.some /\ Len(arg.bytes) = 21
    /\ ret.kind = "InvalidSecretLength" /\ ret.val = 21
    /\ invoked = <<>>

\* C2: for every supplied secret of exactly 20 bytes, program_slot2 invokes
\* ykpersonalize with the hex encoding of the supplied bytes, never fails with
\* InvalidSecretLength, and when the tool exits with success it returns
\* exactly the supplied bytes, which are the bytes the tool's argument decodes to.
C2_FullLengthProgrammed ==
    (op = "program_slot2" /\ arg.some /\ Len(arg.bytes) = 20) =>
        /\ ret.kind # "InvalidSecretLength"
        /\ Len(invoked) = 1
        /\ invoked[1].tool = "ykpersonalize"
        /\ invoked[1].arg = hex_encode(arg.bytes)
        /\ invoked[1].status = ExitOk =>
                /\ ret.ok
                /\ ret.val = arg.bytes
                /\ hex_decode(invoked[1].arg) = Ok(ret.val)

\* A supplied 20-byte secret was programmed and came back.
C2_Witness ==
    /\ op = "program_slot2" /\ arg.some /\ arg.bytes = Fill(20, "up")
    /\ Len(invoked) = 1 /\ invoked[1].status = ExitOk
    /\ ret.ok /\ ret.val = Fill(20, "up")

----------------------------------------------------------------------------
(* Properties of the slot2 commands (Spec).                                *)

\* C3: over every sequence of slot2 program and slot2 restore commands,
\* every secret that reaches ykpersonalize is exactly 20 bytes (40 hex
\* characters), and under slot2 restore it is the secret the argument decodes
\* to, neither truncated nor padded; a decoded secret of another length is
\* rejected with InvalidSecretLength and no device tool is invoked.
C3_OnlyTwentyBytesReachDevice ==
    /\ \A i \in DOMAIN invoked :
            invoked[i].tool = "ykpersonalize" =>
                /\ Len(invoked[i].arg) = 40
                /\ hex_decode(invoked[i].arg).ok
                /\ Len(hex_decode(invoked[i].arg).val) = 20
                /\ op = "slot2 restore" =>
                        /\ hex_decode(trim(arg)).ok
                        /\ hex_decode(trim(arg)).val = hex_decode(invoked[i].arg).val
    /\ ( /\ op = "slot2 restore"
         /\ \E i \in DOMAIN calls : calls[i].fn = "hex::decode"
         /\ hex_decode(trim(arg)).ok
         /\ Len(hex_decode(trim(arg)).val) # 20 ) =>
            /\ ret.kind = "InvalidSecretLength"
            /\ ret.val = Len(hex_decode(trim(arg)).val)
            /\ Tools(invoked) \cap {"ykman", "ykpersonalize", "ykchalresp"} = {}

\* slot2 restore handed ykpersonalize the 40 hex characters of its argument
\* and the tool exited with success.
C3_Witness ==
    /\ op = "slot2 restore"
    /\ Len(trim(arg)) = 40
    /\ \E i \in DOMAIN invoked :
            /\ invoked[i].tool = "ykpersonalize"
            /\ invoked[i].arg = trim(arg)
            /\ invoked[i].status = ExitOk
    /\ ret.ok

----------------------------------------------------------------------------
(* Properties of ensure_dependencies (SpecDeps).                           *)

\* C4: in ensure_dependencies, when the first check reports missing tools and
\* the installation returns success, the check is run again, and a non-empty
\* second list makes the caller receive InstallationFailed; Ok is returned
\* only when the last check reported nothing missing, and then every tool the
\* platform requires resolves.
C4_RecheckAfterInstall ==
    op = "ensure_dependencies" =>
        /\ ( /\ Len(calls) >= 2
             /\ calls[1].ret.ok /\ calls[1].ret.val # <<>>
             /\ calls[2].fn = "install_dependencies" /\ calls[2].ret.ok ) =>
                /\ Len(calls) = 3
                /\ calls[3].fn = "check_dependencies"
                /\ (calls[3].ret.ok /\ calls[3].ret.val # <<>>) =>
                        ret.kind = "InstallationFailed"
        /\ ret.ok =>
                /\ calls[Len(calls)].fn = "check_dependencies"
                /\ calls[Len(calls)].ret.ok
                /\ calls[Len(calls)].ret.val = <<>>
                /\ {"ykman", "ykpersonalize", "ykchalresp"} \subseteq path_cmds
                /\ arg = "MacOS" => "gshred" \in path_cmds

\* The installation returned success, the second check still found tools
\* missing, and the caller received InstallationFailed.
C4_Witness ==
    /\ op = "ensure_dependencies"
    /\ Len(calls) = 3
    /\ calls[1].ret.ok /\ calls[1].ret.val # <<>>
    /\ calls[2].ret.ok
    /\ calls[3].ret.ok /\ calls[3].ret.val # <<>>
    /\ ret.kind = "InstallationFailed"

\* The kinds of failure install_dependencies reports when one of its
\* installation commands (the Homebrew installer, brew, apt-get) fails.
InstallCommandFailureKinds ==
    {install_dependencies(os, {}, o).ret.kind :
        os \in {"MacOS", "Ubuntu"},
        o \in {x \in InstallOutcomesMacOS \cup InstallOutcomesUbuntu : x.brew_probe}}
    \ {"Ok"}

\* C5 as stated: the failure reported when the re-check after the installation
\* still finds tools missing is of a kind no failed installation command is
\* reported with.
C5_RecheckFailureKindDistinct ==
    ( /\ op = "ensure_dependencies"
      /\ Len(calls) = 3
      /\ calls[3].ret.ok /\ calls[3].ret.val # <<>> ) =>
        ret.kind \notin InstallCommandFailureKinds

\* C5, amended: the failure reported when the re-check after the installation
\* still finds tools missing has the kind a failed installation command is
\* reported with, InstallationFailed; the two differ in the message only: the
\* re-check's says that dependencies are still missing after installation, a
\* failed installation command's never does.
C5_RecheckFailureSameKind ==
    op = "ensure_dependencies" =>
        /\ (Len(calls) = 3 /\ calls[3].ret.ok /\ calls[3].ret.val # <<>>) =>
                /\ ret.kind = "InstallationFailed"
                /\ ret.kind \in InstallCommandFailureKinds
                /\ ret.val = "Some dependencies are still missing after installation"
        /\ (Len(calls) = 2 /\ ~calls[2].ret.ok) =>
                /\ ret = calls[2].ret
                /\ ret.val # "Some dependencies are still missing after installation"
                /\ invoked[Len(invoked)].tool # "command" => ret.kind = "InstallationFailed"

\* The re-check found tools missing after an installation that returned
\* success, and the caller received InstallationFailed.
C5_Witness ==
    /\ op = "ensure_dependencies"
    /\ Len(calls) = 3
    /\ calls[2].fn = "install_dependencies" /\ calls[2].ret.ok
    /\ calls[3].fn = "check_dependencies" /\ calls[3].ret.ok
    /\ "ykman" \in {calls[3].ret.val[i] : i \in DOMAIN calls[3].ret.val}
    /\ ret = Err("InstallationFailed", StillMissingMsg)

----------------------------------------------------------------------------
(* Properties of generate_keyfile and secure_delete (SpecKeyfile).         *)

\* C6: when generate_keyfile returns Ok(path), the file at the path holds
\* exactly the bytes the challenge-response step returned, also when a file
\* was at the path before, and its permission bits are 0600 (384), which
\* give the group and others nothing.
C6_KeyfileHoldsResponse ==
    (op = "generate_keyfile" /\ ret.ok) =>
        /\ calls[1].fn = "challenge_response"
        /\ calls[1].ret.ok
        /\ keyfile.exists
        /\ keyfile.content = calls[1].ret.val
        /\ keyfile.mode = 384
        /\ keyfile.mode % 64 = 0

\* generate_keyfile returned Ok over a longer file that was readable by the
\* group and others.
C6_Witness ==
    /\ op = "generate_keyfile" /\ ret.ok
    /\ pre.exists /\ pre.mode = 420
    /\ Len(pre.content) > Len(keyfile.content)
    /\ keyfile.content = Fill(20, "up")
    /\ keyfile.mode = 384

\* C7: secure_delete on a path that does not exist fails with FileError
\* without invoking the erase tool, on either platform; keyfile::secure_delete
\* fails on such a path too (with FileError once the platform is detected),
\* and no erase tool runs: an absent path never yields success.
C7_AbsentPathIsAnError ==
    /\ (op \in {"linux::secure_delete", "macos::secure_delete"} /\ ~pre.exists) =>
            /\ ret.kind = "FileError"
            /\ invoked = <<>>
    /\ (op = "keyfile::secure_delete" /\ ~pre.exists) =>
            /\ ~ret.ok
            /\ invoked = <<>>
            /\ calls[1].ret.ok => ret.kind = "FileError"

\* linux::secure_delete was called on an absent path and failed with
\* FileError, no tool started.
C7_Witness ==
    /\ op = "linux::secure_delete"
    /\ ~pre.exists
    /\ ret.kind = "FileError"
    /\ invoked = <<>>

\* C8: whenever a secure_delete returns Ok, the path does not exist at that
\* moment (and did before); when the erase tool exits with success and the
\* path still exists, secure_delete fails with FileError.
C8_OkMeansGone ==
    op \in {"linux::secure_delete", "macos::secure_delete", "keyfile::secure_delete"} =>
        /\ ret.ok => (~keyfile.exists /\ pre.exists)
        /\ (invoked # <<>> /\ invoked[1].status = ExitOk /\ keyfile.exists) =>
                ret.kind = "FileError"

\* The erase tool exited with success, the file was still there, and
\* secure_delete failed with FileError.
C8_Witness ==
    /\ op \in {"linux::secure_delete", "macos::secure_delete", "keyfile::secure_delete"}
    /\ Len(invoked) = 1 /\ invoked[1].status = ExitOk
    /\ pre.exists /\ keyfile.exists
    /\ ret.kind = "FileError"

\* C9: when the erase tool exits non-zero (or cannot be started),
\* secure_delete fails with CommandFailed, starts nothing else that could
\* delete the file, and the file is there after the call as it was before.
C9_ToolFailureLeavesFile ==
    ( /\ op \in {"linux::secure_delete", "macos::secure_delete", "keyfile::secure_delete"}
      /\ invoked # <<>>
      /\ invoked[1].status # ExitOk ) =>
        /\ ret.kind = "CommandFailed"
        /\ Len(invoked) = 1
        /\ pre.exists
        /\ keyfile.exists = pre.exists

\* shred exited non-zero: CommandFailed, and the file is still there.
C9_Witness ==
    /\ op = "linux::secure_delete"
    /\ Len(invoked) = 1 /\ invoked[1].tool = "shred" /\ invoked[1].status = ExitFail
    /\ ret.kind = "CommandFailed"
    /\ pre.exists /\ keyfile.exists

----------------------------------------------------------------------------
(* Properties of slot2 restore's argument (Spec).                          *)

\* C10 as stated: once slot2 restore has validated its argument, the argument
\* was accepted only if it is a string of 40 hex characters; an argument of
\* any other length failed with InvalidHex or InvalidSecretLength, and one of
\* odd length or with a character that is no hex digit failed with InvalidHex.
C10_OnlyFortyHexAccepted ==
    ( /\ op = "slot2 restore"
      /\ \E i \in DOMAIN calls : calls[i].fn = "hex::decode" ) =>
        /\ ret.kind \notin {"InvalidHex", "InvalidSecretLength"} =>
                /\ Len(arg) = 40
                /\ \A i \in DOMAIN arg : IsHexChar(arg[i])
        /\ Len(arg) # 40 => ret.kind \in {"InvalidHex", "InvalidSecretLength"}
        /\ (Len(arg) % 2 = 1 \/ \E i \in DOMAIN arg : ~IsHexChar(arg[i])) =>
                ret.kind = "InvalidHex"

\* C10, amended: what slot2 restore validates is its argument with the white
\* space around it removed.  Once the dependency gate has passed and the
\* argument is validated, it is accepted exactly when the trimmed argument is
\* a string of 40 hex characters, and the secret held is what that decodes
\* to; a trimmed argument of odd length or with a character that is no hex
\* digit fails with InvalidHex; one of hex digits and another even length
\* fails with InvalidSecretLength carrying half that length.
C10_OnlyTrimmedFortyHexAccepted ==
    ( /\ op = "slot2 restore"
      /\ \E i \in DOMAIN calls : calls[i].fn = "hex::decode" ) =>
        LET t == trim(arg)
            hex == \A i \in DOMAIN t : IsHexChar(t[i])
        IN  /\ (Len(t) = 40 /\ hex) <=> ret.kind \notin {"InvalidHex", "InvalidSecretLength"}
            /\ (Len(t) = 40 /\ hex) => held = hex_decode(t).val
            /\ (Len(t) % 2 = 1 \/ ~hex) => ret.kind = "InvalidHex"
            /\ (Len(t) % 2 = 0 /\ hex /\ Len(t) # 40) =>
                    (ret.kind = "InvalidSecretLength" /\ ret.val = Len(t) \div 2)

\* An argument of 41 characters, 40 hex digits and a newline, was accepted.
C10_Witness ==
    /\ op = "slot2 restore"
    /\ Len(arg) = 41 /\ arg[41] = "\n"
    /\ \E i \in DOMAIN calls : calls[i].fn = "hex::decode" /\ calls[i].ret.ok
    /\ pc = "confirm"
    /\ Len(held) = 20

----------------------------------------------------------------------------
(* Properties of challenge_response (SpecYubikey).                         *)

\* C11 as stated: whenever challenge_response returns Ok, the response it
\* returns is exactly 20 bytes, whatever ykchalresp wrote to its standard
\* output on exit 0.
C11_ResponseIsTwentyBytes ==
    (op = "challenge_response" /\ ret.ok) => Len(ret.val) = 20

----------------------------------------------------------------------------
(* Properties of the confirmation prompt (Spec).                           *)

\* C12: in slot2 program and slot2 restore, ykpersonalize is invoked only
\* when the confirmation prompt of that same invocation returned yes; when it
\* returned no, the command has ended with the Cancelled error, the process
\* exits with status 1, and ykpersonalize was not invoked.
C12_NoOverwriteWithoutYes ==
    op \in {"slot2 program", "slot2 restore"} =>
        /\ "ykpersonalize" \in Tools(invoked) =>
                \E i \in DOMAIN calls :
                    calls[i].fn = "Confirm::interact" /\ calls[i].ret = "yes"
        /\ (\E i \in DOMAIN calls :
                calls[i].fn = "Confirm::interact" /\ calls[i].ret = "no") =>
                /\ pc = "idle"
                /\ ret.kind = "Cancelled"
                /\ ~ret.ok
                /\ main(ret) = 1
                /\ "ykpersonalize" \notin Tools(invoked)

\* slot2 program was answered no and ended with Cancelled, nothing programmed.
C12_Witness ==
    /\ op = "slot2 program"
    /\ \E i \in DOMAIN calls : calls[i].fn = "Confirm::interact" /\ calls[i].ret = "no"
    /\ pc = "idle"
    /\ ret.kind = "Cancelled"
    /\ "ykpersonalize" \notin Tools(invoked)


----------------------------------------------------------------------------
(* Properties of the keyfile's life under the generate command             *)
(* (SpecGenerate).                                                         *)

\* C13 as stated: once secure_delete has succeeded for the keyfile path, no
\* later operation brings the path back to the written state, so the path
\* holds no file from then on.
C13_WipedPathStaysAbsent ==
    wiped => ~keyfile.exists

\* C13, amended: once secure_delete has succeeded in a run of generate, that
\* run has ended with Ok and has left no file at the path; the path stays
\* absent for as long as no later run of generate has begun.
C13_WipedUntilNextRun ==
    (/\ op = "generate"
     /\ \E i \in DOMAIN calls :
            calls[i].fn = "keyfile::secure_delete" /\ calls[i].ret.ok) =>
        /\ pc = "idle"
        /\ ret = Ok(Unit)
        /\ wiped
        /\ ~keyfile.exists
        /\ calls[Len(calls)].fn = "keyfile::secure_delete"

\* A run of generate wrote the keyfile over a file found at the path and has
\* deleted it.
C13_Witness ==
    /\ op = "generate"
    /\ pc = "idle"
    /\ pre.exists
    /\ \E i \in DOMAIN calls : calls[i].fn = "generate_keyfile" /\ calls[i].ret.ok
    /\ calls[Len(calls)].fn = "keyfile::secure_delete"
    /\ calls[Len(calls)].ret.ok
    /\ wiped
    /\ ~keyfile.exists

\* C14 as stated: a run of generate that has ended, with success or with an
\* error, after generate_keyfile created the keyfile has left no keyfile at
\* the path.
C14_EndedRunLeavesNoKeyfile ==
    (/\ op = "generate"
     /\ pc = "idle"
     /\ \E i \in DOMAIN calls : calls[i].fn = "generate_keyfile" /\ calls[i].ret.ok) =>
        ~keyfile.exists

----------------------------------------------------------------------------
(* Properties of challenge_response by the exit of ykchalresp              *)
(* (SpecYubikey).                                                          *)

\* C15: when ykchalresp exits non-zero, challenge_response returns an error
\* chosen by the text of its standard error: YubiKeyNotFound for the
\* no-device text, also when the slot 2 text is there too; otherwise
\* Slot2NotProgrammed for the slot 2 text; otherwise YkchalrespFailed with
\* the text; never response bytes, whatever the standard output holds.
C15_FailureMappedByText ==
    (op = "challenge_response" /\ calls[1].ret.status = ExitFail) =>
        LET text == calls[1].ret.err
            no_device == "No YubiKey detected" \in text \/ "not connected" \in text
            slot2_text == "slot 2" \in text /\ "not programmed" \in text
        IN  /\ ~ret.ok
            /\ no_device => ret.kind = "YubiKeyNotFound"
            /\ (~no_device /\ slot2_text) => ret.kind = "Slot2NotProgrammed"
            /\ (~no_device /\ ~slot2_text) =>
                    (ret.kind = "YkchalrespFailed" /\ ret.val.stderr = text)

\* ykchalresp exited non-zero with both texts in its standard error and 40
\* hex characters in its standard output: YubiKeyNotFound.
C15_Witness ==
    /\ op = "challenge_response"
    /\ calls[1].ret.status = ExitFail
    /\ {"not connected", "slot 2", "not programmed"} \subseteq calls[1].ret.err
    /\ calls[1].ret.out = hex_encode(Fill(20, "up"))
    /\ ~ret.ok
    /\ ret.kind = "YubiKeyNotFound"

\* C16: when ykchalresp exits 0, challenge_response returns the bytes that
\* the standard output, trimmed, decodes to as hex (the 40 characters that
\* encode 20 bytes give those 20 bytes); when the trimmed output is not
\* well-formed hex it returns YkchalrespFailed.
C16_TrimmedOutputDecoded ==
    (op = "challenge_response" /\ calls[1].ret.status = ExitOk) =>
        LET out == calls[1].ret.out
            decoded == hex_decode(trim(out))
        IN  /\ decoded.ok => ret = Ok(decoded.val)
            /\ ~decoded.ok => (~ret.ok /\ ret.kind = "YkchalrespFailed")
            /\ \A p \in Patterns :
                    out = hex_encode(Fill(20, p)) \o <<"\n">> => ret = Ok(Fill(20, p))
            /\ out = <<"A", "B", "c", "d", "0", "9", "\n">> => ret = Ok(<<171, 205, 9>>)
            /\ out \in {<<"a", "1", " ", "b", "2">>, <<"a", "b", "c", "\n">>} =>
                    (~ret.ok /\ ret.kind = "YkchalrespFailed")

\* ykchalresp exited 0 with 40 hex characters and a line feed, and the 20
\* bytes came back.
C16_Witness ==
    /\ op = "challenge_response"
    /\ calls[1].ret.status = ExitOk
    /\ calls[1].ret.out = hex_encode(Fill(20, "down")) \o <<"\n">>
    /\ ret = Ok(Fill(20, "down"))

----------------------------------------------------------------------------
(* Properties of check_yubikey and check_slot2 (SpecYubikey).              *)

\* C17: every successful check_yubikey call has run `ykman info` and `ykman
\* otp info` itself and returns the serial and the firmware version parsed
\* from the output of that info query and the slot 2 value found in the
\* output of that otp query, whatever an earlier call returned; with the
\* serial 12345678, the firmware 5.4.3 and slot 2 programmed reported, it
\* returns exactly these.
C17_FreshDeviceInfo ==
    (op = "check_yubikey" /\ ret.ok) =>
        /\ invoked = <<Ran("ykman", "info", ExitOk), Ran("ykman", "otp info", ExitOk)>>
        /\ calls[1].fn = "ykman info"
        /\ calls[2].fn = "ykman otp info"
        /\ ret.val.serial = parse_field(calls[1].ret.out, <<"s", "e", "r", "i", "a", "l">>).bytes
        /\ ret.val.firmware_version = parse_field(calls[1].ret.out, <<"f", "i", "r", "m", "w", "a", "r", "e">>).bytes
        /\ ret.val.slot2_programmed = any_slot2_programmed(lines(calls[2].ret.out))
        /\ (/\ calls[1].ret.out = <<"S", "e", "r", "i", "a", "l", " ", "n", "u", "m", "b", "e", "r", ":", " ", "1", "2", "3", "4", "5", "6", "7", "8", "\n", "F", "i", "r", "m", "w", "a", "r", "e", " ", "v", "e", "r", "s", "i", "o", "n", ":", " ", "5", ".", "4", ".", "3", "\n">>
            /\ calls[2].ret.out = <<"S", "l", "o", "t", " ", "1", ":", " ", "p", "r", "o", "g", "r", "a", "m", "m", "e", "d", "\n", "S", "l", "o", "t", " ", "2", ":", " ", "p", "r", "o", "g", "r", "a", "m", "m", "e", "d", "\n">>) =>
                ret.val = YubiKeyInfo(<<"1", "2", "3", "4", "5", "6", "7", "8">>, <<"5", ".", "4", ".", "3">>, TRUE)
        /\ (/\ calls[1].ret.out = <<"f", "i", "r", "m", "w", "a", "r", "e", ":", "\t", "1", ".", "0", "\r", "\n", "S", "E", "R", "I", "A", "L", ":", " ", " ", "4", "2", " ", "\r", "\n">>
            /\ calls[2].ret.out = <<"S", "l", "o", "t", " ", "1", ":", " ", "p", "r", "o", "g", "r", "a", "m", "m", "e", "d", "\n", "S", "l", "o", "t", " ", "2", ":", " ", "e", "m", "p", "t", "y", "\n">>) =>
                ret.val = YubiKeyInfo(<<"4", "2">>, <<"1", ".", "0">>, FALSE)

\* check_yubikey returned the serial 12345678, the firmware 5.4.3 and slot 2
\* programmed, from the two queries it made.
C17_Witness ==
    /\ op = "check_yubikey"
    /\ ret = Ok(YubiKeyInfo(<<"1", "2", "3", "4", "5", "6", "7", "8">>, <<"5", ".", "4", ".", "3">>, TRUE))
    /\ Len(invoked) = 2
    /\ calls[2].fn = "ykman otp info"

\* C18 as stated: for the keys "serial" and "firmware", the value
\* check_yubikey returns is the remainder after the first colon, trimmed, of
\* the first line that contains the key when lowered; and check_yubikey fails
\* with YkmanFailed when no line of the output contains the key.
C18_ValueIsRemainderAfterFirstColon ==
    (op = "check_yubikey" /\ calls[1].ret.status = ExitOk) =>
        LET ls == lines(calls[1].ret.out)
            has(i, key) == contains(to_lowercase(ls[i]), key)
            first(key) == CHOOSE i \in DOMAIN ls :
                              has(i, key) /\ \A j \in 1..(i - 1) : ~has(j, key)
            colon(line) == CHOOSE i \in DOMAIN line :
                               line[i] = ":" /\ \A j \in 1..(i - 1) : line[j] # ":"
            remainder(line) == trim(SubSeq(line, colon(line) + 1, Len(line)))
        IN  /\ \A key \in {<<"s", "e", "r", "i", "a", "l">>, <<"f", "i", "r", "m", "w", "a", "r", "e">>} :
                    (\A i \in DOMAIN ls : ~has(i, key)) =>
                        (~ret.ok /\ ret.kind = "YkmanFailed")
            /\ ret.ok =>
                    /\ ret.val.serial = remainder(ls[first(<<"s", "e", "r", "i", "a", "l">>)])
                    /\ ret.val.firmware_version = remainder(ls[first(<<"f", "i", "r", "m", "w", "a", "r", "e">>)])

\* C19: check_yubikey and check_slot2 treat a failed ykman alike, for the
\* info query and for the otp query: when its standard error holds the
\* no-device text the call fails with YubiKeyNotFound, on any other failure
\* (another text, or ykman could not be run) with YkmanFailed, and in both
\* cases the call returns no value.
C19_SameDetectionRule ==
    op \in {"check_yubikey", "check_slot2"} =>
        \A i \in (1..2) \cap DOMAIN calls :
            (/\ calls[i].fn \in {"ykman info", "ykman otp info"}
             /\ calls[i].ret.status # ExitOk) =>
                LET no_device ==
                        /\ calls[i].ret.status = ExitFail
                        /\ \/ "No YubiKey detected" \in calls[i].ret.err
                           \/ "not connected" \in calls[i].ret.err
                IN  /\ ~ret.ok
                    /\ no_device => ret = Err("YubiKeyNotFound", "")
                    /\ ~no_device => ret.kind = "YkmanFailed"
                    /\ i = Len(invoked)

\* check_yubikey parsed the info query, and its otp query failed with "not
\* connected": YubiKeyNotFound.
C19_Witness ==
    /\ op = "check_yubikey"
    /\ Len(calls) >= 2
    /\ calls[1].ret.status = ExitOk
    /\ calls[2].fn = "ykman otp info"
    /\ calls[2].ret.status = ExitFail
    /\ "not connected" \in calls[2].ret.err
    /\ ret = Err("YubiKeyNotFound", "")

\* C20: when `ykman otp info` exits 0, check_slot2 returns Ok(true) if some
\* line of the output, lowered, contains both "slot 2" and "programmed", and
\* Ok(false) if no line does; the two texts on different lines give false.
C20_Slot2LineDecides ==
    (op = "check_slot2" /\ calls[1].ret.status = ExitOk) =>
        LET out == calls[1].ret.out
            ls == lines(out)
        IN  /\ ret.ok
            /\ ret.val = (\E i \in DOMAIN ls :
                            /\ contains(to_lowercase(ls[i]), <<"s", "l", "o", "t", " ", "2">>)
                            /\ contains(to_lowercase(ls[i]), <<"p", "r", "o", "g", "r", "a", "m", "m", "e", "d">>))
            /\ out \in {<<"S", "l", "o", "t", " ", "1", ":", " ", "p", "r", "o", "g", "r", "a", "m", "m", "e", "d", "\n", "S", "l", "o", "t", " ", "2", ":", " ", "p", "r", "o", "g", "r", "a", "m", "m", "e", "d", "\n">>,
                        <<"S", "L", "O", "T", " ", "2", ":", " ", "P", "R", "O", "G", "R", "A", "M", "M", "E", "D">>,
                        <<"S", "l", "o", "t", " ", "2", ":", " ", "n", "o", "t", " ", "p", "r", "o", "g", "r", "a", "m", "m", "e", "d", "\n">>} => ret.val = TRUE
            /\ out \in {<<"S", "l", "o", "t", " ", "1", ":", " ", "p", "r", "o", "g", "r", "a", "m", "m", "e", "d", "\n", "S", "l", "o", "t", " ", "2", ":", " ", "e", "m", "p", "t", "y", "\n">>,
                        <<"p", "r", "o", "g", "r", "a", "m", "m", "e", "d", "\r", "\n", "s", "l", "o", "t", " ", "2", "\r", "\n">>,
                        <<>>} => ret.val = FALSE

\* `ykman otp info` wrote "programmed" on one line and "slot 2" on the next,
\* and check_slot2 returned false.
C20_Witness ==
    /\ op = "check_slot2"
    /\ calls[1].ret.status = ExitOk
    /\ calls[1].ret.out = <<"p", "r", "o", "g", "r", "a", "m", "m", "e", "d", "\r", "\n", "s", "l", "o", "t", " ", "2", "\r", "\n">>
    /\ ret = Ok(FALSE)

\* C21 as stated: check_slot2 returns true only when the output of `ykman otp
\* info` reports slot 2 as programmed; an output whose slot 2 line says "not
\* programmed" or "empty" gives false.
C21_NotProgrammedIsFalse ==
    (/\ op = "check_slot2"
     /\ calls[1].ret.status = ExitOk
     /\ calls[1].ret.out \in {<<"S", "l", "o", "t", " ", "2", ":", " ", "n", "o", "t", " ", "p", "r", "o", "g", "r", "a", "m", "m", "e", "d", "\n">>,
                              <<"S", "l", "o", "t", " ", "1", ":", " ", "p", "r", "o", "g", "r", "a", "m", "m", "e", "d", "\n", "S", "l", "o", "t", " ", "2", ":", " ", "e", "m", "p", "t", "y", "\n">>}) =>
        ret = Ok(FALSE)

----------------------------------------------------------------------------
(* Properties of generate_keyfile, step by step (SpecKeyfile).             *)

\* C22 as stated: at every moment during and after generate_keyfile at which
\* the keyfile holds the response bytes, its permission bits give the group
\* and others no access.
C22_ResponseNeverGroupOrOtherReadable ==
    (/\ op = "generate_keyfile"
     /\ keyfile.exists
     /\ held # <<>>
     /\ keyfile.content = held) =>
        keyfile.mode % 64 = 0

\* C23: when a step of generate_keyfile fails, the call has ended with
\* FileError naming that step, the steps after it have not run, and the file
\* is as the failing step left it: untouched when the creation failed; created
\* or truncated, with the bytes the failed write got out, when the write
\* failed; holding the whole response under the mode it was created or found
\* with when the sync, the metadata query or the permission change failed.
\* It is never removed.
C23_FailedStepLeavesFile ==
    (op = "generate_keyfile" /\ pc = "idle" /\ ~ret.ok /\ ret.kind = "FileError") =>
        LET mode_at_creation_ok ==
                IF pre.exists THEN keyfile.mode = pre.mode ELSE keyfile.mode \in UmaskModes
        IN  /\ ret.val \in {"Failed to create keyfile", "Failed to write keyfile",
                            "Failed to sync keyfile", "Failed to get file metadata",
                            "Failed to set file permissions"}
            /\ ret.val = "Failed to create keyfile" => keyfile = pre
            /\ ret.val = "Failed to write keyfile" =>
                    /\ keyfile.exists
                    /\ keyfile.content = SubSeq(held, 1, Len(held) \div 2)
                    /\ mode_at_creation_ok
            /\ ret.val \in {"Failed to sync keyfile", "Failed to get file metadata",
                            "Failed to set file permissions"} =>
                    /\ keyfile.exists
                    /\ keyfile.content = held
                    /\ mode_at_creation_ok

\* The write of a 20-byte response failed half way into a new file, which
\* stays with 10 bytes under the mode 0644.
C23_Witness ==
    /\ op = "generate_keyfile"
    /\ pc = "idle"
    /\ ret = Err("FileError", "Failed to write keyfile")
    /\ ~pre.exists
    /\ Len(held) = 20
    /\ keyfile.exists
    /\ Len(keyfile.content) = 10
    /\ keyfile.mode = 420

----------------------------------------------------------------------------
(* Properties of the installation sequences (SpecDeps).                    *)

----------------------------------------------------------------------------
(* Properties of check_dependencies (SpecDeps).                            *)

\* C25: each check_dependencies that returns Ok returns exactly the required
\* tools that do not resolve on the PATH it probed, each once: of ykman,
\* ykpersonalize and ykchalresp on both platforms, and of gshred too on
\* macOS.  A tool that resolves is not in the list, and on Ubuntu neither
\* shred nor gshred is probed.  (The first check of ensure_dependencies
\* probes the PATH before the call, the second the PATH the installation
\* left.)
C25_MissingAreExactlyUnresolvable ==
    [][op' = "ensure_dependencies" =>
        LET required == IF arg' = "MacOS"
                        THEN {"ykman", "ykpersonalize", "ykchalresp", "gshred"}
                        ELSE {"ykman", "ykpersonalize", "ykchalresp"}
            listed(k) == {calls'[k].ret.val[i] : i \in DOMAIN calls'[k].ret.val}
            once(k) == \A i, j \in DOMAIN calls'[k].ret.val :
                            calls'[k].ret.val[i] = calls'[k].ret.val[j] => i = j
            probed == {invoked'[i].arg : i \in {j \in DOMAIN invoked' :
                                                    invoked'[j].tool = "command"}}
        IN  /\ calls'[1].fn = "check_dependencies"
            /\ calls'[1].ret.ok =>
                    /\ listed(1) = required \ path_cmds
                    /\ once(1)
                    /\ required \subseteq probed
            /\ (Len(calls') = 3 /\ calls'[3].ret.ok) =>
                    /\ calls'[3].fn = "check_dependencies"
                    /\ listed(3) = required \ path_cmds'
                    /\ once(3)
            /\ arg' = "Ubuntu" => (probed \cap {"shred", "gshred"} = {})
      ]_vars

\* On Ubuntu, with gshred and ykman not on the PATH and the other two there,
\* the first check reported ykman alone.
C25_Witness ==
    /\ op = "ensure_dependencies"
    /\ arg = "Ubuntu"
    /\ calls[1].ret = Ok(<<"ykman">>)
    /\ Len(calls) = 3
    /\ calls[3].ret.ok
    /\ "gshred" \notin path_cmds

----------------------------------------------------------------------------
(* Properties of run(): the platform, the gate, the order of the           *)
(* components (Spec, SpecGenerate).                                        *)

\* C26: detect_os returns Ubuntu only on a Linux build where /usr/bin/apt or
\* /usr/bin/apt-get exists, and MacOS only on a macOS build; on Linux with
\* neither path, and on a build for any other system, it returns
\* UnsupportedOS, and the command ends with that error, exit status 1, and has
\* run no tool.
C26_DetectOsFailsClosed ==
    (op \in Commands /\ calls[1].fn = "detect_os") =>
        LET os == calls[1].ret
            apt == "/usr/bin/apt" \in pkg_paths \/ "/usr/bin/apt-get" \in pkg_paths
        IN  /\ os.ok => os.val \in {"MacOS", "Ubuntu"}
            /\ (os.ok /\ os.val = "Ubuntu") => (target_os = "linux" /\ apt)
            /\ (os.ok /\ os.val = "MacOS") => target_os = "macos"
            /\ (target_os = "linux" /\ ~apt) => (~os.ok /\ os.kind = "UnsupportedOS")
            /\ target_os \notin {"macos", "linux"} => (~os.ok /\ os.kind = "UnsupportedOS")
            /\ ~os.ok =>
                    /\ ret = os
                    /\ pc = "idle"
                    /\ main(ret) = 1
                    /\ invoked = <<>>
                    /\ Len(calls) = 1

\* slot2 program on a Linux without apt ended with UnsupportedOS before any
\* tool ran.
C26_Witness ==
    /\ op = "slot2 program"
    /\ target_os = "linux"
    /\ pkg_paths = {}
    /\ ~ret.ok
    /\ ret.kind = "UnsupportedOS"
    /\ pc = "idle"
    /\ invoked = <<>>

\* C27: in every command, a device tool (ykman, ykpersonalize, ykchalresp)
\* has run, or the keyfile path has changed, only if detect_os and then
\* ensure_dependencies returned Ok earlier in that invocation; the tools run
\* in the order of the components: the gate's probes and installers, then
\* the device tools, then the erase tool; and the keyfile path changes only
\* after ykchalresp ran.
C27_PlatformGateDeviceKeyfile ==
    op \in AllCommands =>
        LET device == {"ykman", "ykpersonalize", "ykchalresp"}
            rank(t) == IF t \in device THEN 2
                       ELSE IF t \in {"shred", "gshred"} THEN 3 ELSE 1
        IN  /\ calls[1].fn = "detect_os"
            /\ (Tools(invoked) \cap device # {} \/ keyfile # pre) =>
                    /\ calls[1].ret.ok
                    /\ Len(calls) >= 2
                    /\ calls[2].fn = "ensure_dependencies"
                    /\ calls[2].ret.ok
            /\ \A i, j \in DOMAIN invoked :
                    i < j => rank(invoked[i].tool) <= rank(invoked[j].tool)
            /\ keyfile # pre => "ykchalresp" \in Tools(invoked)

\* generate on a host where the gate installed the tools with apt-get, then
\* ykman and ykchalresp ran and the keyfile was written.
C27_Witness ==
    /\ op = "generate"
    /\ Len(calls) >= 2
    /\ calls[2].fn = "ensure_dependencies"
    /\ calls[2].ret.ok
    /\ "sudo" \in Tools(invoked)
    /\ "ykman" \in Tools(invoked)
    /\ "ykchalresp" \in Tools(invoked)
    /\ ~pre.exists
    /\ keyfile.exists
    /\ keyfile.content = Fill(20, "up")

----------------------------------------------------------------------------
(* Properties of generate_keyfile when challenge_response fails            *)
(* (SpecKeyfile).                                                          *)

\* C29: when challenge_response fails, generate_keyfile has ended with the
\* very error challenge_response returned, and the destination path is as it
\* was before the call: no file created, none truncated or changed.
C29_FailedResponseTouchesNoFile ==
    (/\ op = "generate_keyfile"
     /\ calls[1].fn = "challenge_response"
     /\ ~calls[1].ret.ok) =>
        /\ pc = "idle"
        /\ ret = calls[1].ret
        /\ keyfile = pre
        /\ Len(calls) = 1

\* ykchalresp failed while a file was at the path: the file is as it was.
C29_Witness ==
    /\ op = "generate_keyfile"
    /\ arg[2].some
    /\ ~calls[1].ret.ok
    /\ invoked[1].status = ExitFail
    /\ ret = calls[1].ret
    /\ pre.exists
    /\ keyfile = File(OldContent, 420)

----------------------------------------------------------------------------
(* Properties of the slot 2 check of generate and test (SpecCommands).     *)

\* C30: in generate and in test, when check_yubikey returned a device whose
\* slot 2 is not programmed, the command has ended with Slot2NotProgrammed
\* (exit status 1) without prompting for the challenge phrase, without
\* running ykchalresp and without touching the keyfile path.
C30_UnprogrammedSlotStopsTheCommand ==
    (/\ op \in {"generate", "test"}
     /\ \E i \in DOMAIN calls :
            /\ calls[i].fn = "check_yubikey"
            /\ calls[i].ret.ok
            /\ ~calls[i].ret.val.slot2_programmed) =>
        /\ pc = "idle"
        /\ ret = Err("Slot2NotProgrammed", "")
        /\ main(ret) = 1
        /\ \A i \in DOMAIN calls :
                calls[i].fn \notin {"Password::interact", "challenge_response",
                                    "generate_keyfile"}
        /\ "ykchalresp" \notin Tools(invoked)
        /\ keyfile = pre

\* generate found slot 2 empty and ended with Slot2NotProgrammed, the file
\* an earlier run left at the path untouched.
C30_Witness ==
    /\ op = "generate"
    /\ calls[Len(calls)].fn = "check_yubikey"
    /\ calls[Len(calls)].ret.ok
    /\ ~calls[Len(calls)].ret.val.slot2_programmed
    /\ ret = Err("Slot2NotProgrammed", "")
    /\ pre.exists
    /\ keyfile = pre
============================================================================
